---- MODULE Spec2Model ----
(***************************************************************************)
(* A model of the metavoxel edit commands of MetavoxelMessages.cpp and of  *)
(* the part of MetavoxelData they drive.  Lengths are counted in quarter   *)
(* units, so that every coordinate and node size is an integer.  The last  *)
(* part models the NetworkPacket objects of NetworkPacket.cpp.             *)
(***************************************************************************)
EXTENDS Integers, Sequences, FiniteSets, TLC

VARIABLES data, mem, snapshot, build, pc, edit, steps, hist, net

vars == <<data, mem, snapshot, build, pc, edit, steps, hist, net>>

\* ------------------------------------------------------------------ bounds
\* number of edit commands applied in one behaviour
MaxEdits == 2
\* number of NetworkPacket objects in one behaviour
MaxPackets == 2

\* ------------------------------------------------------------- constants
\* the edge of a freshly constructed MetavoxelData (1.0, in quarter units)
InitSize == 4
\* the minimum meaningful size of the voxel attributes (0.5): the edge below
\* which no node is meant to be subdivided
MinNodeSize == 2
\* the step of the coordinates (0.25): a box can end between the faces of the
\* nodes of edge MinNodeSize, and no box cuts a node of this edge
Resolution == 1
CHILD_COUNT == 8
\* LOD threshold multiplier of the spanners attribute
SPANNER_LOD_THRESHOLD_MULTIPLIER == 8

STOP_RECURSION == "STOP_RECURSION"
DEFAULT_ORDER == "DEFAULT_ORDER"

\* an AttributeValue with no attribute (an output the visitor did not write)
Unset == -1
\* the default payload of every voxel attribute
DefaultValue == 0

VoxelAttrs == {"color", "spannerColor"}
SpannersAttribute == "spanners"

\* --------------------------------------------------------------- geometry
Vec(x, y, z) == <<x, y, z>>
VAdd(a, b) == <<a[1] + b[1], a[2] + b[2], a[3] + b[3]>>
VSub(a, b) == <<a[1] - b[1], a[2] - b[2], a[3] - b[3]>>
IMax(a, b) == IF a >= b THEN a ELSE b
IMin(a, b) == IF a <= b THEN a ELSE b
VMax(a, b) == <<IMax(a[1], b[1]), IMax(a[2], b[2]), IMax(a[3], b[3])>>
VMin(a, b) == <<IMin(a[1], b[1]), IMin(a[2], b[2]), IMin(a[3], b[3])>>

Box(lo, hi) == [minimum |-> lo, maximum |-> hi]

\* Box::contains(const Box&)
BoxContains(b, other) ==
    \A k \in 1..3 : other.minimum[k] >= b.minimum[k] /\ other.maximum[k] <= b.maximum[k]

\* Box::intersects(const Box&): closed boxes, touching faces intersect
BoxIntersects(b, other) ==
    \A k \in 1..3 : other.maximum[k] >= b.minimum[k] /\ other.minimum[k] <= b.maximum[k]

\* Box::getLongestSide
GetLongestSide(b) ==
    IMax(b.maximum[1] - b.minimum[1],
         IMax(b.maximum[2] - b.minimum[2], b.maximum[3] - b.minimum[3]))

\* MetavoxelInfo::getBounds
InfoBounds(info) ==
    Box(info.minimum, VAdd(info.minimum, Vec(info.size, info.size, info.size)))

\* MetavoxelData::getBounds: the cube of edge size centred on the origin
GetBounds(d) ==
    Box(Vec(-(d.size \div 2), -(d.size \div 2), -(d.size \div 2)),
        Vec(d.size \div 2, d.size \div 2, d.size \div 2))

\* ------------------------------------------------------------------ nodes
Leaf(v) == [value |-> v, children |-> <<>>]
Node(v, kids) == [value |-> v, children |-> kids]
IsLeaf(n) == n.children = <<>>

\* MetavoxelNode::mergeChildren: children that are all leaves of one value
\* collapse into a leaf; the parent carries the first child's value
MergeChildren(n) ==
    IF IsLeaf(n) THEN n
    ELSE IF \A k \in 1..CHILD_COUNT :
                IsLeaf(n.children[k]) /\ n.children[k].value = n.children[1].value
         THEN Leaf(n.children[1].value)
         ELSE Node(n.children[1].value, n.children)

\* the child of a node in octant index (0..7); a leaf hands its value down
ChildOf(n, index) == IF IsLeaf(n) THEN Leaf(n.value) ELSE n.children[index + 1]

\* X_MAXIMUM_FLAG = 1, Y_MAXIMUM_FLAG = 2, Z_MAXIMUM_FLAG = 4
ChildMinimum(minimum, half, index) ==
    VAdd(minimum, Vec(IF index % 2 = 1 THEN half ELSE 0,
                      IF (index \div 2) % 2 = 1 THEN half ELSE 0,
                      IF (index \div 4) % 2 = 1 THEN half ELSE 0))

\* getOppositeIndex
GetOppositeIndex(index) == 7 - index


\* --------------------------------------------------------------- spanners
\* The spanner objects an edit can carry: bounds, placement granularity, the
\* value they voxelize to.
SpannerIds == {1, 2, 3}

\* the instance that paintHeight or setMaterial returns when it does not
\* return the instance it was called on: another object, with an id of its own
NewInstance(id) ==
    IF id \in SpannerIds THEN id + Cardinality(SpannerIds) ELSE id - Cardinality(SpannerIds)

\* an instance that came from NewInstance has the shape of the one it replaced
Spanner(id) ==
    IF id = 1 \/ id = NewInstance(1)
    THEN [id |-> id, bounds |-> Box(Vec(0, 0, 0), Vec(2, 2, 2)), granularity |-> 8, color |-> 1]
    ELSE IF id = 3 \/ id = NewInstance(3)
    THEN [id |-> id, bounds |-> Box(Vec(0, 0, 0), Vec(4, 4, 4)), granularity |-> 16, color |-> 3]
    ELSE [id |-> id, bounds |-> Box(Vec(-4, 0, 0), Vec(4, 2, 2)), granularity |-> 2, color |-> 2]

SpannerAttrs == {SpannersAttribute}

\* Spanner::getVoxelizedAttributes and Spanner::getAttributes
GetVoxelizedAttributes(s) == <<"spannerColor">>
GetAttributes(s) == <<"color">>

\* ------------------------------------------------------------------- data
\* MetavoxelData: the edge of the bounds, one tree per voxel attribute (a
\* missing root is a leaf of the default value), one spanner collection per
\* spanner-set attribute
EmptyData ==
    [size |-> InitSize,
     roots |-> [a \in VoxelAttrs |-> Leaf(DefaultValue)],
     spanners |-> [a \in SpannerAttrs |-> {}]]

\* MetavoxelData::expand: the bounds double about the origin; what each old
\* octant held becomes the grandchild of the new root nearest the origin
ExpandRoot(t) ==
    MergeChildren(Node(DefaultValue,
        [i \in 1..CHILD_COUNT |->
            MergeChildren(Node(DefaultValue,
                [j \in 1..CHILD_COUNT |->
                    IF j - 1 = GetOppositeIndex(i - 1)
                    THEN ChildOf(t, i - 1)
                    ELSE Leaf(DefaultValue)]))]))

Expand(d) ==
    [d EXCEPT !.size = 2 * d.size,
              !.roots = [a \in VoxelAttrs |-> ExpandRoot(d.roots[a])]]

RECURSIVE ExpandToContain(_, _)
ExpandToContain(d, box) ==
    IF BoxContains(GetBounds(d), box) THEN d ELSE ExpandToContain(Expand(d), box)

\* the edge of the nodes that hold a spanner's entry: the first node edge,
\* going down from the root, that is not above max(longest side, granularity)
RECURSIVE FirstSizeNotAbove(_, _)
FirstSizeNotAbove(size, limit) ==
    IF size <= limit \/ size <= MinNodeSize THEN size
    ELSE FirstSizeNotAbove(size \div 2, limit)

StoredSize(d, s) ==
    FirstSizeNotAbove(d.size, IMax(GetLongestSide(s.bounds), s.granularity))

\* the value of the spanners attribute at a node: the spanners held at the
\* node's level whose bounds meet the node
SpannerSetAt(d, minimum, size) ==
    {id \in d.spanners[SpannersAttribute] :
        /\ StoredSize(d, Spanner(id)) = size
        /\ BoxIntersects(Box(minimum, VAdd(minimum, Vec(size, size, size))),
                         Spanner(id).bounds)}

\* MetavoxelData::insert
Insert(d, attribute, id) ==
    LET e == ExpandToContain(d, Spanner(id).bounds)
    IN  [e EXCEPT !.spanners[attribute] = @ \cup {id}]

\* MetavoxelData::remove
Remove(d, attribute, id) == [d EXCEPT !.spanners[attribute] = @ \ {id}]

\* MetavoxelData::clear
Clear(d, attribute) == [d EXCEPT !.spanners[attribute] = {}]

\* MetavoxelData::replace
Replace(d, attribute, old, new) ==
    [d EXCEPT !.spanners[attribute] = (@ \ {old}) \cup {new}]

\* MetavoxelData::getIntersecting
GetIntersecting(d, attribute, box) ==
    {id \in d.spanners[attribute] : BoxIntersects(Spanner(id).bounds, box)}

\* the value of a voxel attribute in the cell whose lowest corner is p
RECURSIVE NodeValueAt(_, _, _, _)
NodeValueAt(n, minimum, size, p) ==
    IF IsLeaf(n) THEN n.value
    ELSE LET half == size \div 2
             index == (IF p[1] >= minimum[1] + half THEN 1 ELSE 0)
                    + (IF p[2] >= minimum[2] + half THEN 2 ELSE 0)
                    + (IF p[3] >= minimum[3] + half THEN 4 ELSE 0)
         IN  NodeValueAt(n.children[index + 1], ChildMinimum(minimum, half, index), half, p)

\* the cells of a data: the cubes of edge Resolution, one step of the
\* coordinates, that make up its bounds, by their lowest corners
Cells(d) ==
    LET r == (-(d.size \div 2))..((d.size \div 2) - Resolution)
    IN  r \X r \X r

ValueAt(d, attribute, p) ==
    NodeValueAt(d.roots[attribute], GetBounds(d).minimum, d.size, p)


\* ------------------------------------------------------------- visitors
Written(info, v) ==
    [order |-> STOP_RECURSION, outputValues |-> [info.outputValues EXCEPT ![1] = v]]
Stop(info) == [order |-> STOP_RECURSION, outputValues |-> info.outputValues]
Subdivide(info) == [order |-> DEFAULT_ORDER, outputValues |-> info.outputValues]

\* the visit as it would be if half a node did not round up
BoxSetEditVisitor_visit_strictHalf(_edit, info) ==
    LET minimum == VMax(info.minimum, _edit.region.minimum)
        maximum == VMin(VAdd(info.minimum, Vec(info.size, info.size, info.size)),
                        _edit.region.maximum)
        size == VSub(maximum, minimum)
        volumeNum == size[1] * size[2] * size[3]
        volumeDen == info.size * info.size * info.size
    IN  IF size[1] <= 0 \/ size[2] <= 0 \/ size[3] <= 0 THEN Stop(info)
        ELSE IF volumeNum >= volumeDen THEN Written(info, _edit.value)
        ELSE IF info.size <= _edit.granularity
        THEN (IF 2 * volumeNum > volumeDen THEN Written(info, _edit.value) ELSE Stop(info))
        ELSE Subdivide(info)

\* the visit as it would be if every partly covered node were rounded,
\* whatever the granularity
BoxSetEditVisitor_visit_noRefine(_edit, info) ==
    LET minimum == VMax(info.minimum, _edit.region.minimum)
        maximum == VMin(VAdd(info.minimum, Vec(info.size, info.size, info.size)),
                        _edit.region.maximum)
        size == VSub(maximum, minimum)
        volumeNum == size[1] * size[2] * size[3]
        volumeDen == info.size * info.size * info.size
    IN  IF size[1] <= 0 \/ size[2] <= 0 \/ size[3] <= 0 THEN Stop(info)
        ELSE IF volumeNum >= volumeDen THEN Written(info, _edit.value)
        ELSE IF TRUE
        THEN (IF 2 * volumeNum >= volumeDen THEN Written(info, _edit.value) ELSE Stop(info))
        ELSE Subdivide(info)

\* the visit as it would be without the early return for a node that the
\* region does not overlap
BoxSetEditVisitor_visit_noDisjoint(_edit, info) ==
    LET minimum == VMax(info.minimum, _edit.region.minimum)
        maximum == VMin(VAdd(info.minimum, Vec(info.size, info.size, info.size)),
                        _edit.region.maximum)
        size == VSub(maximum, minimum)
        volumeNum == size[1] * size[2] * size[3]
        volumeDen == info.size * info.size * info.size
    IN  IF FALSE THEN Stop(info)
        ELSE IF volumeNum >= volumeDen THEN Written(info, _edit.value)
        ELSE IF info.size <= _edit.granularity
        THEN (IF 2 * volumeNum >= volumeDen THEN Written(info, _edit.value) ELSE Stop(info))
        ELSE Subdivide(info)

\* the visit as it would be if a node counted as disjoint by the sign of the
\* product of the three extents
BoxSetEditVisitor_visit_volumeSign(_edit, info) ==
    LET minimum == VMax(info.minimum, _edit.region.minimum)
        maximum == VMin(VAdd(info.minimum, Vec(info.size, info.size, info.size)),
                        _edit.region.maximum)
        size == VSub(maximum, minimum)
        volumeNum == size[1] * size[2] * size[3]
        volumeDen == info.size * info.size * info.size
    IN  IF volumeNum <= 0
        THEN Stop(info)
        ELSE IF volumeNum >= volumeDen
        THEN Written(info, _edit.value)
        ELSE IF info.size <= _edit.granularity
        THEN (IF 2 * volumeNum >= volumeDen THEN Written(info, _edit.value) ELSE Stop(info))
        ELSE Subdivide(info)

\* the visit as it would be if it wrote the edit value into a node the region
\* does not overlap
BoxSetEditVisitor_visit_fillDisjoint(_edit, info) ==
    LET minimum == VMax(info.minimum, _edit.region.minimum)
        maximum == VMin(VAdd(info.minimum, Vec(info.size, info.size, info.size)),
                        _edit.region.maximum)
        size == VSub(maximum, minimum)
        volumeNum == size[1] * size[2] * size[3]
        volumeDen == info.size * info.size * info.size
    IN  IF size[1] <= 0 \/ size[2] <= 0 \/ size[3] <= 0
        THEN Written(info, _edit.value)
        ELSE IF volumeNum >= volumeDen
        THEN Written(info, _edit.value)
        ELSE IF info.size <= _edit.granularity
        THEN (IF 2 * volumeNum >= volumeDen THEN Written(info, _edit.value) ELSE Stop(info))
        ELSE Subdivide(info)

\* the visit as it would be without the branch for a node the region covers
BoxSetEditVisitor_visit_noFull(_edit, info) ==
    LET minimum == VMax(info.minimum, _edit.region.minimum)
        maximum == VMin(VAdd(info.minimum, Vec(info.size, info.size, info.size)),
                        _edit.region.maximum)
        size == VSub(maximum, minimum)
        volumeNum == size[1] * size[2] * size[3]
        volumeDen == info.size * info.size * info.size
    IN  IF size[1] <= 0 \/ size[2] <= 0 \/ size[3] <= 0
        THEN Stop(info)
        ELSE IF info.size <= _edit.granularity
        THEN (IF 2 * volumeNum >= volumeDen THEN Written(info, _edit.value) ELSE Stop(info))
        ELSE Subdivide(info)

\* the visit as it would be if it wrote the default into a node the region
\* does not overlap
BoxSetEditVisitor_visit_clearDisjoint(_edit, info) ==
    LET minimum == VMax(info.minimum, _edit.region.minimum)
        maximum == VMin(VAdd(info.minimum, Vec(info.size, info.size, info.size)),
                        _edit.region.maximum)
        size == VSub(maximum, minimum)
        volumeNum == size[1] * size[2] * size[3]
        volumeDen == info.size * info.size * info.size
    IN  IF size[1] <= 0 \/ size[2] <= 0 \/ size[3] <= 0
        THEN Written(info, DefaultValue)
        ELSE IF volumeNum >= volumeDen
        THEN Written(info, _edit.value)
        ELSE IF info.size <= _edit.granularity
        THEN (IF 2 * volumeNum >= volumeDen THEN Written(info, _edit.value) ELSE Stop(info))
        ELSE Subdivide(info)

\* the visit as it would be if only a negative extent counted as no overlap
BoxSetEditVisitor_visit_strictDisjoint(_edit, info) ==
    LET minimum == VMax(info.minimum, _edit.region.minimum)
        maximum == VMin(VAdd(info.minimum, Vec(info.size, info.size, info.size)),
                        _edit.region.maximum)
        size == VSub(maximum, minimum)
        volumeNum == size[1] * size[2] * size[3]
        volumeDen == info.size * info.size * info.size
    IN  IF size[1] < 0 \/ size[2] < 0 \/ size[3] < 0
        THEN Stop(info)
        ELSE IF volumeNum >= volumeDen
        THEN Written(info, _edit.value)
        ELSE IF info.size <= _edit.granularity
        THEN (IF 2 * volumeNum >= volumeDen THEN Written(info, _edit.value) ELSE Stop(info))
        ELSE Subdivide(info)

\* BoxSetEditVisitor::visit.  volume is the quotient volumeNum / volumeDen
BoxSetEditVisitor_visit(_edit, info) ==
    LET minimum == VMax(info.minimum, _edit.region.minimum)
        maximum == VMin(VAdd(info.minimum, Vec(info.size, info.size, info.size)),
                        _edit.region.maximum)
        size == VSub(maximum, minimum)
        volumeNum == size[1] * size[2] * size[3]
        volumeDen == info.size * info.size * info.size
    IN  IF size[1] <= 0 \/ size[2] <= 0 \/ size[3] <= 0
        THEN Stop(info)
        ELSE IF volumeNum >= volumeDen
        THEN Written(info, _edit.value)
        ELSE IF info.size <= _edit.granularity
        THEN (IF 2 * volumeNum >= volumeDen THEN Written(info, _edit.value) ELSE Stop(info))
        ELSE Subdivide(info)

\* the visit as it would be if it asked for the default order above the
\* minimum meaningful size
GlobalSetEditVisitor_visit_subdivide(_edit, info) ==
    IF info.size > MinNodeSize THEN Subdivide(info) ELSE Written(info, _edit.value)

\* GlobalSetEditVisitor::visit
GlobalSetEditVisitor_visit(_edit, info) == Written(info, _edit.value)

\* Spanner::blendAttributeValues(info, force): the outputs after the spanner
\* has blended itself over what the node holds (the outputs written so far,
\* else the inputs), and whether to go on subdividing
BlendAttributeValues(s, info, force) ==
    LET node == InfoBounds(info)
        blended == [i \in 1..Len(info.outputValues) |->
                       IMax(IF info.outputValues[i] = Unset
                            THEN info.inputValues[i] ELSE info.outputValues[i],
                            s.color)]
    IN  IF ~BoxIntersects(s.bounds, node)
        THEN [outputValues |-> info.outputValues, subdivide |-> FALSE]
        ELSE IF BoxContains(s.bounds, node) \/ force \/ info.size <= s.granularity
        THEN [outputValues |-> blended, subdivide |-> FALSE]
        ELSE [outputValues |-> info.outputValues, subdivide |-> TRUE]

RECURSIVE BlendEach(_, _)
BlendEach(ids, info) ==
    IF ids = {} THEN info.outputValues
    ELSE LET id == CHOOSE i \in ids : \A j \in ids : i <= j
             out == BlendAttributeValues(Spanner(id), info, TRUE).outputValues
         IN  BlendEach(ids \ {id}, [info EXCEPT !.outputValues = out])

\* the nearest integer to log2(m)
RoundLog2(m) == CHOOSE k \in 0..15 : 2^(2 * k) <= 2 * m * m /\ 2 * m * m < 2^(2 * k + 2)

\* UpdateSpannerVisitor::UpdateSpannerVisitor.  _voxelizationSize is the
\* quotient voxelizationNum / voxelizationDen
UpdateSpannerVisitor(attributes, spanner) ==
    [kind |-> "UpdateSpanner",
     inputs |-> attributes \o <<SpannersAttribute>>,
     outputs |-> attributes,
     spanner |-> spanner,
     voxelizationNum |-> IMax(GetLongestSide(spanner.bounds), spanner.granularity) * 2,
     voxelizationDen |-> SPANNER_LOD_THRESHOLD_MULTIPLIER,
     steps |-> RoundLog2(SPANNER_LOD_THRESHOLD_MULTIPLIER) - 2]

\* the walk as it would be if it started at the info itself
WalkUp_fromInfo(info, count) ==
    IF count >= 1 /\ Len(info.parents) >= count THEN <<info.parents[count]>> ELSE <<>>

\* the info that is `count` parentInfo links above the info's parent, or
\* <<>> when the chain ends before
WalkUp(info, count) ==
    IF Len(info.parents) >= 1 + count THEN <<info.parents[1 + count]>> ELSE <<>>

\* the visit as it would be if a node of the voxelization size were subdivided
UpdateSpannerVisitor_visit_deeper(v, info) ==
    IF ~BoxIntersects(InfoBounds(info), v.spanner.bounds)
    THEN Stop(info)
    ELSE LET parentInfo == WalkUp(info, v.steps)
             reset == [info EXCEPT !.outputValues =
                          [i \in 1..Len(v.outputs) |-> DefaultValue]]
             out == IF parentInfo # <<>>
                    THEN BlendEach(parentInfo[1].inputValues[Len(v.outputs) + 1], reset)
                    ELSE reset.outputValues
         IN  [order |-> IF info.size * v.voxelizationDen >= v.voxelizationNum
                        THEN DEFAULT_ORDER ELSE STOP_RECURSION,
              outputValues |-> out]

\* the visit as it would be if the outputs were reset only when the walk
\* reached an ancestor
UpdateSpannerVisitor_visit_resetLate(v, info) ==
    IF ~BoxIntersects(InfoBounds(info), v.spanner.bounds)
    THEN Stop(info)
    ELSE LET parentInfo == WalkUp(info, v.steps)
             reset == [info EXCEPT !.outputValues =
                          [i \in 1..Len(v.outputs) |-> DefaultValue]]
             out == IF parentInfo # <<>>
                    THEN BlendEach(parentInfo[1].inputValues[Len(v.outputs) + 1], reset)
                    ELSE info.outputValues
         IN  [order |-> IF info.size * v.voxelizationDen > v.voxelizationNum
                        THEN DEFAULT_ORDER ELSE STOP_RECURSION,
              outputValues |-> out]

\* the visit as it would be without the test of the node's bounds against
\* the spanner's
UpdateSpannerVisitor_visit_noBoundsTest(v, info) ==
    IF FALSE
    THEN Stop(info)
    ELSE LET parentInfo == WalkUp(info, v.steps)
             reset == [info EXCEPT !.outputValues =
                          [i \in 1..Len(v.outputs) |-> DefaultValue]]
             out == IF parentInfo # <<>>
                    THEN BlendEach(parentInfo[1].inputValues[Len(v.outputs) + 1], reset)
                    ELSE reset.outputValues
         IN  [order |-> IF info.size * v.voxelizationDen > v.voxelizationNum
                        THEN DEFAULT_ORDER ELSE STOP_RECURSION,
              outputValues |-> out]

\* UpdateSpannerVisitor::visit
UpdateSpannerVisitor_visit(v, info) ==
    IF ~BoxIntersects(InfoBounds(info), v.spanner.bounds)
    THEN Stop(info)
    ELSE LET parentInfo == WalkUp(info, v.steps)
             reset == [info EXCEPT !.outputValues =
                          [i \in 1..Len(v.outputs) |-> DefaultValue]]
             out == IF parentInfo # <<>>
                    THEN BlendEach(parentInfo[1].inputValues[Len(v.outputs) + 1], reset)
                    ELSE reset.outputValues
         IN  [order |-> IF info.size * v.voxelizationDen > v.voxelizationNum
                        THEN DEFAULT_ORDER ELSE STOP_RECURSION,
              outputValues |-> out]

\* the visit as it would be if it accepted the blend whatever the spanner said
SetSpannerEditVisitor_visit_accept(v, info) ==
    LET b == BlendAttributeValues(v.spanner, info, FALSE)
    IN  [order |-> STOP_RECURSION, outputValues |-> b.outputValues]

\* SetSpannerEditVisitor::visit
SetSpannerEditVisitor_visit(v, info) ==
    LET b == BlendAttributeValues(v.spanner, info, FALSE)
    IN  [order |-> IF b.subdivide THEN DEFAULT_ORDER ELSE STOP_RECURSION,
         outputValues |-> b.outputValues]

\* the visitor as it would be if its output were the other voxel attribute
BoxSetEditVisitor_otherAttribute(e) ==
    [kind |-> "BoxSetEdit", inputs |-> <<>>,
     outputs |-> <<CHOOSE a \in VoxelAttrs : a # e.attribute>>, edit |-> e]

BoxSetEditVisitor(e) ==
    [kind |-> "BoxSetEdit", inputs |-> <<>>, outputs |-> <<e.attribute>>, edit |-> e]
GlobalSetEditVisitor(e) ==
    [kind |-> "GlobalSetEdit", inputs |-> <<>>, outputs |-> <<e.attribute>>, edit |-> e]
SetSpannerEditVisitor(attributes, spanner) ==
    [kind |-> "SetSpannerEdit", inputs |-> attributes, outputs |-> attributes,
     spanner |-> spanner]

\* MetavoxelVisitor::visit, dispatched on the visitor's class
Visit(v, info) ==
    CASE v.kind = "BoxSetEdit" -> BoxSetEditVisitor_visit(v.edit, info)
      [] v.kind = "GlobalSetEdit" -> GlobalSetEditVisitor_visit(v.edit, info)
      [] v.kind = "UpdateSpanner" -> UpdateSpannerVisitor_visit(v, info)
      [] v.kind = "SetSpannerEdit" -> SetSpannerEditVisitor_visit(v, info)

\* ------------------------------------------------------------------ guide
\* the value a visitor reads for an input attribute at a node
InputValue(d, attribute, node, minimum, size) ==
    IF attribute = SpannersAttribute THEN SpannerSetAt(d, minimum, size) ELSE node.value

\* DefaultMetavoxelGuide::guide on one node: visit it, then, for
\* DEFAULT_ORDER, its eight children in octant order 0..7; the output nodes
\* replace the old ones, the old nodes are left as they were.  The guide
\* itself never refuses the children: it is the visitor that has to stop at
\* the minimum meaningful size.  overrun tells that a visitor asked for the
\* children of a node of that size or smaller; the traversal goes on into
\* them.  Only the children of a node of edge Resolution are not followed:
\* the coordinates cannot tell them.  log is the calls of visit in the order
\* they were made.
RECURSIVE DefaultMetavoxelGuide_guide(_, _, _)

\* the MetavoxelInfo of a visitation
InfoOf(v, d, visitation) ==
    [minimum |-> visitation.minimum, size |-> visitation.size,
     parents |-> visitation.parents,
     inputValues |-> [j \in 1..Len(v.inputs) |->
                         InputValue(d, v.inputs[j], visitation.inputNodes[j],
                                    visitation.minimum, visitation.size)],
     outputValues |-> [i \in 1..Len(v.outputs) |-> Unset]]

\* the output nodes after a visit: with STOP_RECURSION the output values the
\* visitor wrote are accepted as the node's new values; with DEFAULT_ORDER
\* the node is left to its children, which start from what it holds
NodesAfter(visitation, r) ==
    [i \in 1..Len(r.outputValues) |->
        IF r.order = STOP_RECURSION /\ r.outputValues[i] # Unset
        THEN Leaf(r.outputValues[i])
        ELSE visitation.outputNodes[i]]

\* the visitation of the child in octant k - 1
ChildVisitation(visitation, info, nodes, k) ==
    [minimum |-> ChildMinimum(info.minimum, info.size \div 2, k - 1),
     size |-> info.size \div 2,
     parents |-> <<[minimum |-> info.minimum, size |-> info.size,
                    inputValues |-> info.inputValues]>> \o info.parents,
     inputNodes |-> [j \in 1..Len(visitation.inputNodes) |->
                        ChildOf(visitation.inputNodes[j], k - 1)],
     outputNodes |-> [i \in 1..Len(nodes) |-> ChildOf(nodes[i], k - 1)]]

RECURSIVE SumVisits(_, _)
SumVisits(sub, k) == IF k = 0 THEN 0 ELSE sub[k].visits + SumVisits(sub, k - 1)

\* what one call of visit was given and what it gave back
Visitation(info, r) == [info |-> info, order |-> r.order, outputValues |-> r.outputValues]

\* the node rebuilt from the children's results
Combined(nodes, sub, entry) ==
    [outputNodes |-> [i \in 1..Len(nodes) |->
                         MergeChildren(Node(nodes[i].value,
                             [k \in 1..CHILD_COUNT |-> sub[k].outputNodes[i]]))],
     visits |-> 1 + SumVisits(sub, CHILD_COUNT),
     overrun |-> \E k \in 1..CHILD_COUNT : sub[k].overrun,
     log |-> entry \o sub[1].log \o sub[2].log \o sub[3].log \o sub[4].log
                   \o sub[5].log \o sub[6].log \o sub[7].log \o sub[8].log]

\* the result of a subdivided node, marked when the node was one of the
\* minimum meaningful size or smaller
BelowMinimum(info, combined) ==
    [combined EXCEPT !.overrun = @ \/ info.size <= MinNodeSize]

Descend(v, d, visitation, info, order, nodes, entry) ==
    IF order = STOP_RECURSION
    THEN [outputNodes |-> nodes, visits |-> 1, overrun |-> FALSE, log |-> entry]
    ELSE IF info.size <= Resolution
    THEN [outputNodes |-> nodes, visits |-> 1, overrun |-> TRUE, log |-> entry]
    ELSE BelowMinimum(info,
             Combined(nodes,
                 [k \in 1..CHILD_COUNT |->
                     DefaultMetavoxelGuide_guide(v, d,
                         ChildVisitation(visitation, info, nodes, k))],
                 entry))

Visited(v, d, visitation, info, r) ==
    Descend(v, d, visitation, info, r.order, NodesAfter(visitation, r),
            <<Visitation(info, r)>>)

VisitInfo(v, d, visitation, info) == Visited(v, d, visitation, info, Visit(v, info))

DefaultMetavoxelGuide_guide(v, d, visitation) ==
    VisitInfo(v, d, visitation, InfoOf(v, d, visitation))

RootOf(d, attribute) ==
    IF attribute \in VoxelAttrs THEN d.roots[attribute] ELSE Leaf(DefaultValue)

\* the data with the roots of the visitor's outputs replaced
WithRoots(d, outputs, g) ==
    [data |-> [d EXCEPT !.roots = [a \in VoxelAttrs |->
                   IF \E i \in 1..Len(outputs) : outputs[i] = a
                   THEN g.outputNodes[CHOOSE i \in 1..Len(outputs) : outputs[i] = a]
                   ELSE d.roots[a]]],
     visits |-> g.visits, overrun |-> g.overrun, log |-> g.log, calls |-> <<>>]

\* MetavoxelData::guide: the traversal from the root
Guide(d, v) ==
    WithRoots(d, v.outputs,
        DefaultMetavoxelGuide_guide(v, d,
            [minimum |-> GetBounds(d).minimum, size |-> d.size, parents |-> <<>>,
             inputNodes |-> [j \in 1..Len(v.inputs) |-> RootOf(d, v.inputs[j])],
             outputNodes |-> [i \in 1..Len(v.outputs) |-> RootOf(d, v.outputs[i])]]))

\* ------------------------------------------------------------ node store
\* The MetavoxelNode objects behind the trees: heap[id] is a node, its
\* children held by id; id 0 is the missing root, read as a leaf of the
\* default value.  A MetavoxelData handle is the ids of its roots.
NullNode == 0

RECURSIVE TreeAt(_, _)
TreeAt(heap, id) ==
    IF id = NullNode THEN Leaf(DefaultValue)
    ELSE IF heap[id].children = <<>> THEN Leaf(heap[id].value)
    ELSE Node(heap[id].value,
              [k \in 1..CHILD_COUNT |-> TreeAt(heap, heap[id].children[k])])

ChildIds(heap, id) ==
    IF id = NullNode \/ heap[id].children = <<>>
    THEN [k \in 1..CHILD_COUNT |-> NullNode]
    ELSE heap[id].children

Allocated(heap, node) == [heap |-> Append(heap, node), id |-> Len(heap) + 1]

RECURSIVE SumTo(_, _)
SumTo(counts, k) == IF k = 0 THEN 0 ELSE counts[k] + SumTo(counts, k - 1)

\* the test as it would be if a missing node stood for a leaf of the default
Kept_missing(heap, old, tree) == TreeAt(heap, old) = tree

\* the node old can stand where tree is to stand: it is a node and holds tree
Kept(heap, old, tree) == old # NullNode /\ TreeAt(heap, old) = tree

\* the number of nodes that are new once tree stands where node old stood:
\* a subtree that is as it was keeps its nodes, a changed node is a new one
RECURSIVE NewCount(_, _, _)
NewCount(heap, old, tree) ==
    IF Kept(heap, old, tree) THEN 0
    ELSE IF IsLeaf(tree) THEN 1
    ELSE 1 + SumTo([k \in 1..CHILD_COUNT |->
                       NewCount(heap, ChildIds(heap, old)[k], tree.children[k])],
                   CHILD_COUNT)

\* the new nodes of the first k - 1 children come before those of child k
ChildBase(heap, old, tree, base, k) ==
    base + SumTo([j \in 1..(k - 1) |->
                     NewCount(heap, ChildIds(heap, old)[j], tree.children[j])],
                 k - 1)

NewChildNodes(kids) ==
    kids[1].nodes \o kids[2].nodes \o kids[3].nodes \o kids[4].nodes
        \o kids[5].nodes \o kids[6].nodes \o kids[7].nodes \o kids[8].nodes

\* the node that holds a subdivided tree comes after the new nodes below it
NewParent(value, base, kids, below) ==
    [nodes |-> Append(below, [value |-> value,
                              children |-> [k \in 1..CHILD_COUNT |-> kids[k].id]]),
     id |-> base + Len(below) + 1]

NewSubtree(value, base, kids) == NewParent(value, base, kids, NewChildNodes(kids))

\* the new nodes, numbered from base + 1, and the node that holds tree
RECURSIVE NewNodes(_, _, _, _)
NewNodes(heap, old, tree, base) ==
    IF Kept(heap, old, tree)
    THEN [nodes |-> <<>>, id |-> old]
    ELSE IF IsLeaf(tree)
    THEN [nodes |-> <<[value |-> tree.value, children |-> <<>>]>>, id |-> base + 1]
    ELSE NewSubtree(tree.value, base,
             [k \in 1..CHILD_COUNT |->
                 NewNodes(heap, ChildIds(heap, old)[k], tree.children[k],
                          ChildBase(heap, old, tree, base, k))])

WithNewNodes(heap, new) == [heap |-> heap \o new.nodes, id |-> new.id]

\* the store as it would be if the changed root node were written over the
\* old one instead of being cloned
WrittenOver(heap, old, new) ==
    IF new.nodes = <<>> \/ old = NullNode
    THEN WithNewNodes(heap, new)
    ELSE [heap |-> [(heap \o new.nodes) EXCEPT ![old] = new.nodes[Len(new.nodes)]],
          id |-> old]

StoreNode_inPlace(heap, old, tree) ==
    WrittenOver(heap, old, NewNodes(heap, old, tree, Len(heap)))

\* path copy: the subtree that is as it was keeps its node, shared by the
\* old and the new version; a changed node is a new node, and the old node
\* is left as it was
StoreNode(heap, old, tree) == WithNewNodes(heap, NewNodes(heap, old, tree, Len(heap)))

\* the handle and the store after the roots have become newRoots
StoredSecond(first, stored) ==
    [heap |-> stored.heap, roots |-> [color |-> first, spannerColor |-> stored.id]]

StoredFirst(m, newRoots, stored) ==
    StoredSecond(stored.id,
                 StoreNode(stored.heap, m.roots["spannerColor"], newRoots["spannerColor"]))

Stored(m, newRoots) ==
    StoredFirst(m, newRoots, StoreNode(m.heap, m.roots["color"], newRoots["color"]))

EmptyMem == [heap |-> <<>>, roots |-> [a \in VoxelAttrs |-> NullNode]]

\* ----------------------------------------------------------------- inputs
\* the regions a BoxSetEdit is given: an octant of the fresh bounds, half of
\* them, all of them, half and a quarter of a node of edge 4, a bar reaching
\* past one doubling, a region of zero extent on the face of the doubled
\* bounds, a corner of the doubled bounds that lies off the low octants on
\* two axes, a region inverted on two axes, and a region that ends between
\* the faces of the nodes of the minimum meaningful size: an eighth of the
\* node of edge MinNodeSize at the origin
Regions ==
    {Box(Vec(0, 0, 0), Vec(2, 2, 2)),
     Box(Vec(-2, -2, -2), Vec(0, 2, 2)),
     Box(Vec(-2, -2, -2), Vec(2, 2, 2)),
     Box(Vec(0, 0, 0), Vec(2, 4, 4)),
     Box(Vec(0, 0, 0), Vec(2, 2, 4)),
     Box(Vec(-2, 0, 0), Vec(6, 2, 2)),
     Box(Vec(4, 0, 0), Vec(4, 2, 2)),
     Box(Vec(2, 2, 0), Vec(4, 4, 4)),
     Box(Vec(2, 2, 0), Vec(0, 0, 2)),
     Box(Vec(0, 0, 0), Vec(1, 1, 1))}

Granularities == {0, 4}
EditValues == {1, 2}
\* an id no object carries
UnknownId == 9
\* the builds of MetavoxelMessages.cpp: the one that revoxelizes on insert
\* and remove, and the one that paints heightfields
Builds == {"voxelize", "paint"}

\* QColor with 8-bit channels, as the edit carries it over the wire
QColor(r, g, b, a) == [red |-> r, green |-> g, blue |-> b, alpha |-> a]

\* QColor::alphaF() < 0.5f: alphaF is alpha / 255
AlphaBelowHalf(color) == 2 * color.alpha < 255

\* QColor::setAlphaF(1.0f)
SetAlphaOpaque(color) == [color EXCEPT !.alpha = 255]

\* the average colors a material edit is given: alpha 0.4, the two alphas
\* next to one half, alpha 0.6
AverageColors == {QColor(200, 100, 50, a) : a \in {102, 127, 128, 153}}

\* where a height brush is put down, in hundredths of the length unit: inside
\* the spanners, and beside the end of the long one, nearer to it than the
\* extended radius and farther than the radius
BrushPositions == {Vec(100, 100, 100), Vec(610, 100, 100)}
BrushRadii == {200}

NoBox == Box(Vec(0, 0, 0), Vec(0, 0, 0))
NoEdit ==
    [kind |-> "none", attribute |-> "color", region |-> NoBox, granularity |-> 0,
     value |-> DefaultValue, id |-> 0, object |-> 0, blend |-> FALSE,
     sharedPointer |-> 0, holders |-> 0,
     averageColor |-> QColor(0, 0, 0, 0), paint |-> FALSE, material |-> "none",
     position |-> Vec(0, 0, 0), radius |-> 0, height |-> 0,
     minimum |-> Vec(0, 0, 0), data |-> EmptyData]

\* the object tables a caller can hand to apply: every spanner a collection
\* holds is alive, so it is in the table; others may or may not be
ObjectTables(d) ==
    {t \cup UNION {d.spanners[a] : a \in SpannerAttrs} : t \in SUBSET SpannerIds}

\* WeakSharedObjectHash::value: the object of the id, 0 (null) when none
ObjectsValue(objects, id) == IF id \in objects THEN id ELSE 0

\* the nodes whose spanner set holds the spanner: each holds one owning
\* reference to it
NodesHolding(d, attribute, id) ==
    IF id \notin d.spanners[attribute] THEN {}
    ELSE LET s == StoredSize(d, Spanner(id))
             r == {k \in (-(d.size \div 2))..((d.size \div 2) - 1) :
                      (k + d.size \div 2) % s = 0}
         IN  {m \in {Vec(x, y, z) : x \in r, y \in r, z \in r} : id \in SpannerSetAt(d, m, s)}

\* the owning references to an object other than the data's: those of whoever
\* made it and may still hold it.  An object the data does not hold is in
\* the table only while somebody else holds it.
Holders(d, attribute, object) ==
    {n \in 0..1 : NodesHolding(d, attribute, object) = {} => n >= 1}

\* SharedObject's count of owning references to the edit's object: those of
\* the nodes, those held outside the data, that of the apply in progress
ReferenceCount(d, e) ==
    Cardinality(NodesHolding(d, e.attribute, e.object)) + e.holders
        + (IF e.sharedPointer = e.object THEN 1 ELSE 0)

\* ------------------------------------------------------------ operations
\* an apply starts only between edits; a behaviour applies at most MaxEdits edits
CanApply == pc = "idle" /\ steps < MaxEdits

Started(h, d) ==
    [h EXCEPT !.before = d, !.expands = 0, !.visits = 0, !.overrun = FALSE,
              !.guideSize = 0, !.log = <<>>, !.calls = <<>>]

\* an apply that runs as one step: e is the edit, g what its traversal gave
Applied(e, g, boxes, inserted) ==
    /\ CanApply
    /\ edit' = e
    /\ data' = g.data
    /\ hist' = [hist EXCEPT !.before = data, !.expands = 0, !.visits = g.visits,
                            !.overrun = g.overrun, !.guideSize = g.data.size,
                            !.log = g.log, !.calls = g.calls,
                            !.peak = IMax(@, g.data.size),
                            !.boxes = boxes, !.inserted = inserted]
    /\ mem' = Stored(mem, data'.roots)
    /\ steps' = steps + 1
    /\ UNCHANGED <<net, build, pc, snapshot>>

\* an apply that first expands in a loop: its first step
Entered(e, label) ==
    /\ CanApply
    /\ edit' = e
    /\ pc' = label
    /\ hist' = Started(hist, data)
    /\ UNCHANGED <<net, data, mem, snapshot, build, steps>>

\* one turn of the loop: data.expand()
Expanded(label) ==
    /\ pc = label
    /\ data' = Expand(data)
    /\ mem' = Stored(mem, data'.roots)
    /\ hist' = [hist EXCEPT !.expands = @ + 1, !.peak = IMax(@, data'.size)]
    /\ UNCHANGED <<net, snapshot, build, pc, edit, steps>>

\* after the loop: data.guide(visitor), and apply returns
Traversed(label, g, box) ==
    /\ pc = label
    /\ data' = g.data
    /\ hist' = [hist EXCEPT !.visits = g.visits, !.overrun = @ \/ g.overrun,
                            !.guideSize = data.size, !.boxes = @ \cup {box},
                            !.log = g.log]
    /\ mem' = Stored(mem, data'.roots)
    /\ pc' = "idle"
    /\ steps' = steps + 1
    /\ UNCHANGED <<net, snapshot, build, edit>>

NoTraversal(d) ==
    [data |-> d, visits |-> 0, overrun |-> FALSE, log |-> <<>>, calls |-> <<>>]

\* the loop condition as it would be if it looked at the minimum corner of
\* the region alone
BoxSetEdit_mustExpand_minimumOnly(d, region) ==
    ~BoxContains(GetBounds(d), Box(region.minimum, region.minimum))

\* the loop condition as it would be if the loop were a single test
BoxSetEdit_mustExpand_once(d, region) ==
    ~BoxContains(GetBounds(d), region) /\ hist.expands = 0

\* BoxSetEdit::apply, the loop condition
BoxSetEdit_mustExpand(d, region) == ~BoxContains(GetBounds(d), region)

\* BoxSetEdit::apply
BoxSetEdit_apply ==
    \/ \E region \in Regions, granularity \in Granularities, value \in EditValues :
           Entered([NoEdit EXCEPT !.kind = "BoxSetEdit", !.region = region,
                                  !.granularity = granularity, !.value = value],
                   "BoxSetEdit")
    \/ /\ BoxSetEdit_mustExpand(data, edit.region)
       /\ Expanded("BoxSetEdit")
    \/ /\ ~BoxSetEdit_mustExpand(data, edit.region)
       /\ Traversed("BoxSetEdit", Guide(data, BoxSetEditVisitor(edit)), edit.region)

\* GlobalSetEdit::apply
GlobalSetEdit_apply(d, e) == Guide(d, GlobalSetEditVisitor(e))

GlobalSetEdit ==
    \E attribute \in VoxelAttrs, value \in EditValues :
        Applied([NoEdit EXCEPT !.kind = "GlobalSetEdit", !.attribute = attribute,
                               !.value = value],
                GlobalSetEdit_apply(data,
                    [NoEdit EXCEPT !.kind = "GlobalSetEdit", !.attribute = attribute,
                                   !.value = value]),
                hist.boxes, hist.inserted)

\* the apply as it would be without data.insert
InsertSpannerEdit_apply_noInsert(d, e) ==
    Guide(d, UpdateSpannerVisitor(GetVoxelizedAttributes(Spanner(e.object)),
                                  Spanner(e.object)))

\* InsertSpannerEdit::apply of the build that revoxelizes
InsertSpannerEdit_apply(d, e) ==
    Guide(Insert(d, e.attribute, e.object),
          UpdateSpannerVisitor(GetVoxelizedAttributes(Spanner(e.object)),
                               Spanner(e.object)))

\* InsertSpannerEdit::apply of the build that paints
InsertSpannerEdit_apply_paint(d, e) == NoTraversal(Insert(d, e.attribute, e.object))

InsertSpannerEdit_edit(attribute, id) ==
    [NoEdit EXCEPT !.kind = "InsertSpannerEdit", !.attribute = attribute,
                   !.id = id, !.object = id]

InsertSpannerEdit ==
    \E attribute \in SpannerAttrs, id \in SpannerIds :
        Applied(InsertSpannerEdit_edit(attribute, id),
                IF build = "voxelize"
                THEN InsertSpannerEdit_apply(data, InsertSpannerEdit_edit(attribute, id))
                ELSE InsertSpannerEdit_apply_paint(data, InsertSpannerEdit_edit(attribute, id)),
                hist.boxes \cup {Spanner(id).bounds}, hist.inserted \cup {id})

\* the apply as it would be without the test for a missing object
RemoveSpannerEdit_apply_noNullCheck(d, e) ==
    Guide(Remove(d, e.attribute, e.id),
          UpdateSpannerVisitor(GetVoxelizedAttributes(Spanner(e.id)), Spanner(e.id)))

\* the apply as it would be without data.remove
RemoveSpannerEdit_apply_noRemove(d, e) ==
    IF e.object = 0
    THEN NoTraversal(d)
    ELSE Guide(d, UpdateSpannerVisitor(GetVoxelizedAttributes(Spanner(e.object)),
                                       Spanner(e.object)))

\* RemoveSpannerEdit::apply of the build that revoxelizes; e.object is
\* objects.value(id)
RemoveSpannerEdit_apply(d, e) ==
    IF e.object = 0
    THEN NoTraversal(d)
    ELSE Guide(Remove(d, e.attribute, e.object),
               UpdateSpannerVisitor(GetVoxelizedAttributes(Spanner(e.object)),
                                    Spanner(e.object)))

\* RemoveSpannerEdit::apply of the build that paints
RemoveSpannerEdit_apply_paint(d, e) ==
    NoTraversal(IF e.object # 0 THEN Remove(d, e.attribute, e.object) ELSE d)

RemoveSpannerEdit_edit(attribute, id, objects) ==
    [NoEdit EXCEPT !.kind = "RemoveSpannerEdit", !.attribute = attribute,
                   !.id = id, !.object = ObjectsValue(objects, id)]

\* the apply as it would be with a plain pointer to the object
RemoveSpannerEdit_sharedPointer_plain(object) == 0

\* RemoveSpannerEdit::apply, `SharedObjectPointer sharedPointer = object;`:
\* the owning reference the apply holds from here to its return
RemoveSpannerEdit_sharedPointer(object) == object

\* data.remove and the traversal of the update visitor have run; the apply
\* has not returned yet
RemoveSpannerEdit_guided(g) ==
    /\ pc = "RemoveSpannerEdit"
    /\ pc' = "RemoveSpannerEdit_return"
    /\ data' = g.data
    /\ hist' = [hist EXCEPT !.visits = g.visits, !.overrun = @ \/ g.overrun,
                            !.guideSize = data.size, !.log = g.log,
                            !.inserted = @ \ {edit.object}]
    /\ mem' = Stored(mem, data'.roots)
    /\ UNCHANGED <<net, snapshot, build, edit, steps>>

\* the apply returns: its locals, sharedPointer among them, are destroyed
RemoveSpannerEdit_returned ==
    /\ pc = "RemoveSpannerEdit_return"
    /\ pc' = "idle"
    /\ edit' = [edit EXCEPT !.sharedPointer = 0]
    /\ steps' = steps + 1
    /\ UNCHANGED <<net, data, mem, snapshot, build, hist>>

\* RemoveSpannerEdit::apply.  The build that paints, and the build that
\* revoxelizes when the id is unknown, run as one step; the build that
\* revoxelizes a known object takes its reference, then removes and
\* traverses, then returns.
RemoveSpannerEdit ==
    \/ \E attribute \in SpannerAttrs,
          id \in SpannerIds \cup {UnknownId} \cup data.spanners[SpannersAttribute],
          objects \in ObjectTables(data) :
           /\ build = "paint" \/ ObjectsValue(objects, id) = 0
           /\ Applied(RemoveSpannerEdit_edit(attribute, id, objects),
                      IF build = "voxelize"
                      THEN RemoveSpannerEdit_apply(data,
                               RemoveSpannerEdit_edit(attribute, id, objects))
                      ELSE RemoveSpannerEdit_apply_paint(data,
                               RemoveSpannerEdit_edit(attribute, id, objects)),
                      hist.boxes, hist.inserted \ {ObjectsValue(objects, id)})
    \/ \E attribute \in SpannerAttrs, id \in SpannerIds, objects \in ObjectTables(data) :
           /\ build = "voxelize"
           /\ ObjectsValue(objects, id) # 0
           /\ \E holders \in Holders(data, attribute, ObjectsValue(objects, id)) :
                  Entered([RemoveSpannerEdit_edit(attribute, id, objects) EXCEPT
                              !.holders = holders,
                              !.sharedPointer =
                                  RemoveSpannerEdit_sharedPointer(ObjectsValue(objects, id))],
                          "RemoveSpannerEdit")
    \/ RemoveSpannerEdit_guided(RemoveSpannerEdit_apply(data, edit))
    \/ RemoveSpannerEdit_returned

\* the apply as it would be if it reset what the spanners had voxelized
ClearSpannersEdit_apply_revoxelize(d, e) ==
    Guide(Clear(d, e.attribute),
          GlobalSetEditVisitor([NoEdit EXCEPT !.attribute = "spannerColor"]))

\* ClearSpannersEdit::apply
ClearSpannersEdit_apply(d, e) == NoTraversal(Clear(d, e.attribute))

ClearSpannersEdit ==
    \E attribute \in SpannerAttrs :
        Applied([NoEdit EXCEPT !.kind = "ClearSpannersEdit", !.attribute = attribute],
                ClearSpannersEdit_apply(data,
                    [NoEdit EXCEPT !.kind = "ClearSpannersEdit", !.attribute = attribute]),
                hist.boxes, {})

\* ------------------------------------------------- edits of the paint build
\* the data a SetDataEdit can carry, each of the initial size: nothing set,
\* one value throughout, and one octant set apart from the rest
SetDataSources ==
    {EmptyData,
     [EmptyData EXCEPT !.roots["color"] = Leaf(1)],
     [EmptyData EXCEPT !.roots["color"] =
         Node(DefaultValue, [k \in 1..CHILD_COUNT |->
                                IF k = 1 THEN Leaf(2) ELSE Leaf(DefaultValue)])]}

\* where its lowest corner is put: on the lowest corner of the initial
\* bounds, and on the origin, where it reaches beyond them
SetDataMinimums == {Vec(-2, -2, -2), Vec(0, 0, 0)}

\* the attribute's combination of the value held with the value merged in
MixValues(held, merged) == IMax(held, merged)

\* a node over the cube at minimum after the other data, put down with its
\* lowest corner at offset, is merged into it: what the other data does not
\* reach stays, a leaf it reaches takes its value or the combination; the
\* other data has no node below MinNodeSize
RECURSIVE SetNode(_, _, _, _, _, _, _)
SetNode(n, minimum, size, other, attribute, offset, blend) ==
    LET placed == Box(offset, VAdd(offset, Vec(other.size, other.size, other.size)))
        node == Box(minimum, VAdd(minimum, Vec(size, size, size)))
        merged == ValueAt(other, attribute,
                          VAdd(VSub(minimum, offset), GetBounds(other).minimum))
    IN  IF ~BoxIntersects(placed, node) THEN n
        ELSE IF (size <= MinNodeSize /\ IsLeaf(n)) \/ size <= Resolution
        THEN (IF BoxContains(placed, node)
              THEN Leaf(IF blend THEN MixValues(n.value, merged) ELSE merged)
              ELSE n)
        ELSE MergeChildren(Node(n.value,
                 [k \in 1..CHILD_COUNT |->
                     SetNode(ChildOf(n, k - 1), ChildMinimum(minimum, size \div 2, k - 1),
                             size \div 2, other, attribute, offset, blend)]))

\* an attribute the other data has no root for is left as it is
WithSet(e, minimum, other, blend) ==
    [e EXCEPT !.roots = [a \in VoxelAttrs |->
                            IF other.roots[a] = Leaf(DefaultValue) THEN e.roots[a]
                            ELSE SetNode(e.roots[a], GetBounds(e).minimum, e.size,
                                         other, a, minimum, blend)]]

\* MetavoxelData::set: the bounds grow until they hold the other data where
\* it is put down, then every attribute's tree takes it in
SetData(d, minimum, other, blend) ==
    WithSet(ExpandToContain(d, Box(minimum, VAdd(minimum,
                Vec(other.size, other.size, other.size)))),
            minimum, other, blend)

\* SetDataEdit::apply
SetDataEdit_apply(d, e) == NoTraversal(SetData(d, e.minimum, e.data, e.blend))

SetDataEdit_edit(minimum, other, blend) ==
    [NoEdit EXCEPT !.kind = "SetDataEdit", !.minimum = minimum, !.data = other,
                   !.blend = blend]

SetDataEdit ==
    /\ build = "paint"
    /\ \E minimum \in SetDataMinimums, other \in SetDataSources, blend \in BOOLEAN :
           Applied(SetDataEdit_edit(minimum, other, blend),
                   SetDataEdit_apply(data, SetDataEdit_edit(minimum, other, blend)),
                   hist.boxes, hist.inserted)

\* the elements of a set of instances as the vector getIntersecting fills
RECURSIVE AsVector(_)
AsVector(ids) ==
    IF ids = {} THEN <<>>
    ELSE LET id == CHOOSE i \in ids : \A j \in ids : i <= j
         IN  <<id>> \o AsVector(ids \ {id})

\* Spanner::paintHeight and Spanner::setMaterial: the instance they return,
\* the one they were called on or a new one; changed are the instances that
\* do not stay as they are
Returned(id, changed) == IF id \in changed THEN NewInstance(id) ELSE id

\* the foreach body as it would be without data.replace
ReplacedIfNew_never(d, old, new) == d

\* `if (newSpanner != spanner) { data.replace(spannersAttribute, spanner, newSpanner); }`
ReplacedIfNew(d, old, new) ==
    IF new # old THEN Replace(d, SpannersAttribute, old, new) ELSE d

\* the loop as it would be if it went over the collection as it is, so that
\* an instance put into it is reached later in the same loop
RECURSIVE ForEachResult_live(_, _, _, _, _)
ForEachResult_live(r, results, k, changed, color) ==
    IF k > Len(results) THEN r
    ELSE ForEachResult_live(
             [r EXCEPT !.data = ReplacedIfNew(r.data, results[k], Returned(results[k], changed)),
                       !.calls = Append(@, [on |-> results[k], color |-> color,
                                            returned |-> Returned(results[k], changed),
                                            held |-> results[k] \in
                                                       r.data.spanners[SpannersAttribute]])],
             IF Returned(results[k], changed) # results[k]
             THEN Append(results, Returned(results[k], changed)) ELSE results,
             k + 1, changed \ {results[k]}, color)

\* the foreach loop over the results from the k-th on: r.data is the data so
\* far, r.calls the calls of paintHeight or setMaterial so far
RECURSIVE ForEachResult(_, _, _, _, _)
ForEachResult(r, results, k, changed, color) ==
    IF k > Len(results) THEN r
    ELSE ForEachResult(
             [r EXCEPT !.data = ReplacedIfNew(r.data, results[k], Returned(results[k], changed)),
                       !.calls = Append(@, [on |-> results[k], color |-> color,
                                            returned |-> Returned(results[k], changed),
                                            held |-> results[k] \in
                                                       r.data.spanners[SpannersAttribute]])],
             results, k + 1, changed, color)

\* the box of a height brush against the bounds of a spanner, both in
\* hundredths: extents = radius * RADIUS_EXTENSION
RADIUS_EXTENSION_PERCENT == 110
BrushBox(position, radius) ==
    LET extents == (radius * RADIUS_EXTENSION_PERCENT) \div 100
    IN  Box(VSub(position, Vec(extents, extents, extents)),
            VAdd(position, Vec(extents, extents, extents)))

InHundredths(box) ==
    Box(Vec(100 * box.minimum[1], 100 * box.minimum[2], 100 * box.minimum[3]),
        Vec(100 * box.maximum[1], 100 * box.maximum[2], 100 * box.maximum[3]))

\* data.getIntersecting(spannersAttribute, Box(position - extents, position + extents), results)
BrushResults(d, e) ==
    {id \in d.spanners[SpannersAttribute] :
        BoxIntersects(InHundredths(Spanner(id).bounds), BrushBox(e.position, e.radius))}

\* PaintHeightfieldHeightEdit::apply
PaintHeightfieldHeightEdit_apply(d, e, changed) ==
    ForEachResult(NoTraversal(d), AsVector(BrushResults(d, e)), 1, changed,
                  QColor(0, 0, 0, 0))

PaintHeightfieldHeightEdit_edit(position, radius) ==
    [NoEdit EXCEPT !.kind = "PaintHeightfieldHeightEdit", !.attribute = SpannersAttribute,
                   !.position = position, !.radius = radius, !.height = 1]

PaintHeightfieldHeightEdit ==
    /\ build = "paint"
    /\ \E position \in BrushPositions, radius \in BrushRadii :
           \E changed \in SUBSET BrushResults(data,
                                  PaintHeightfieldHeightEdit_edit(position, radius)) :
               Applied(PaintHeightfieldHeightEdit_edit(position, radius),
                       PaintHeightfieldHeightEdit_apply(data,
                           PaintHeightfieldHeightEdit_edit(position, radius), changed),
                       hist.boxes, hist.inserted)

\* the color as it would be if a faint average color were kept
HeightfieldMaterialSpannerEdit_color_keep(e) ==
    IF e.paint THEN SetAlphaOpaque(e.averageColor) ELSE e.averageColor

\* the color as it would be if the test of the alpha came first
HeightfieldMaterialSpannerEdit_color_alphaFirst(e) ==
    IF AlphaBelowHalf(e.averageColor) THEN QColor(0, 0, 0, 0)
    ELSE IF e.paint THEN SetAlphaOpaque(e.averageColor)
    ELSE e.averageColor

\* HeightfieldMaterialSpannerEdit::apply, the color handed to setMaterial
HeightfieldMaterialSpannerEdit_color(e) ==
    IF e.paint THEN SetAlphaOpaque(e.averageColor)
    ELSE IF AlphaBelowHalf(e.averageColor) THEN QColor(0, 0, 0, 0)
    ELSE e.averageColor

\* HeightfieldMaterialSpannerEdit::apply; e.object is the edit's spanner
HeightfieldMaterialSpannerEdit_apply(d, e, changed) ==
    ForEachResult(NoTraversal(d),
                  AsVector(GetIntersecting(d, SpannersAttribute, Spanner(e.object).bounds)),
                  1, changed, HeightfieldMaterialSpannerEdit_color(e))

HeightfieldMaterialSpannerEdit_edit(id, averageColor, paint) ==
    [NoEdit EXCEPT !.kind = "HeightfieldMaterialSpannerEdit",
                   !.attribute = SpannersAttribute, !.id = id, !.object = id,
                   !.material = "material", !.averageColor = averageColor,
                   !.paint = paint]

HeightfieldMaterialSpannerEdit ==
    /\ build = "paint"
    /\ \E id \in SpannerIds, averageColor \in AverageColors, paint \in BOOLEAN :
           \E changed \in SUBSET GetIntersecting(data, SpannersAttribute, Spanner(id).bounds) :
               Applied(HeightfieldMaterialSpannerEdit_edit(id, averageColor, paint),
                       HeightfieldMaterialSpannerEdit_apply(data,
                           HeightfieldMaterialSpannerEdit_edit(id, averageColor, paint),
                           changed),
                       hist.boxes, hist.inserted)

\* SetSpannerEdit::apply, the loop condition
SetSpannerEdit_mustExpand(d, spanner) == ~BoxContains(GetBounds(d), spanner.bounds)

\* SetSpannerEdit::apply (the build that revoxelizes only)
SetSpannerEdit_apply ==
    \/ /\ build = "voxelize"
       /\ \E id \in SpannerIds :
              Entered([NoEdit EXCEPT !.kind = "SetSpannerEdit", !.id = id, !.object = id],
                      "SetSpannerEdit")
    \/ /\ SetSpannerEdit_mustExpand(data, Spanner(edit.object))
       /\ Expanded("SetSpannerEdit")
    \/ /\ ~SetSpannerEdit_mustExpand(data, Spanner(edit.object))
       /\ Traversed("SetSpannerEdit",
                    Guide(data, SetSpannerEditVisitor(GetAttributes(Spanner(edit.object)),
                                                      Spanner(edit.object))),
                    Spanner(edit.object).bounds)

\* --------------------------------------------------------- specification
\* a reader captures the data: a second handle on the same nodes
TakeSnapshot ==
    /\ pc = "idle"
    /\ ~snapshot.taken
    /\ snapshot' = [taken |-> TRUE, roots |-> mem.roots, view |-> data]
    /\ UNCHANGED <<net, data, mem, build, pc, edit, steps, hist>>

\* --------------------------------------------------------- NetworkPacket
\* MAX_PACKET_SIZE, declared outside NetworkPacket.cpp
MAX_PACKET_SIZE == 1500

\* a QByteArray: its size and what it holds
EmptyByteArray == [size |-> 0, content |-> "none"]
ByteArrays ==
    {EmptyByteArray} \cup
    {[size |-> n, content |-> c] : n \in {1, MAX_PACKET_SIZE, MAX_PACKET_SIZE + 1},
                                  c \in {"a", "b"}}

\* a SharedNodePointer: 0 is the null pointer
SendingNodes == {0, 1, 2}

PacketSlots == 1..MaxPackets

\* the storage of a NetworkPacket before a constructor has run on it, and
\* the object with its members default-constructed, as they are when the
\* body of a constructor starts
NoPacket == [live |-> FALSE, sendingNode |-> 0, byteArray |-> EmptyByteArray]
DefaultPacket == [live |-> TRUE, sendingNode |-> 0, byteArray |-> EmptyByteArray]

\* the copy as it would be without the test of the size
copyContents_unchecked(this, sendingNode, packet) ==
    [this EXCEPT !.sendingNode = sendingNode, !.byteArray = packet]

\* NetworkPacket::copyContents
copyContents(this, sendingNode, packet) ==
    IF packet.size # 0 /\ packet.size <= MAX_PACKET_SIZE
    THEN [this EXCEPT !.sendingNode = sendingNode, !.byteArray = packet]
    ELSE this

\* no call yet
NoCall == [kind |-> "none", this |-> 0, sendingNode |-> 0, byteArray |-> EmptyByteArray]

\* HAS_MOVE_SEMANTICS is not defined, no packet is constructed
NoNet == [packets |-> [s \in PacketSlots |-> NoPacket], move |-> FALSE, call |-> NoCall]

\* a constructor or an assignment has called copyContents on the packet in slot s
Called(kind, s, this, sendingNode, packet) ==
    /\ net' = [net EXCEPT !.packets[s] = copyContents(this, sendingNode, packet),
                          !.call = [kind |-> kind, this |-> s, sendingNode |-> sendingNode,
                                    byteArray |-> packet]]
    /\ UNCHANGED <<data, mem, snapshot, build, pc, edit, steps, hist>>

\* NetworkPacket::NetworkPacket(const SharedNodePointer&, const QByteArray&)
NetworkPacket_fromBytes ==
    \E s \in PacketSlots, sendingNode \in SendingNodes, packet \in ByteArrays :
        /\ ~net.packets[s].live
        /\ Called("NetworkPacket(sendingNode, packet)", s, DefaultPacket, sendingNode, packet)

\* NetworkPacket::NetworkPacket(const NetworkPacket&)
NetworkPacket_copy ==
    \E s, o \in PacketSlots :
        /\ ~net.packets[s].live
        /\ net.packets[o].live
        /\ Called("NetworkPacket(const NetworkPacket&)", s, DefaultPacket,
                  net.packets[o].sendingNode, net.packets[o].byteArray)

\* NetworkPacket::operator=(NetworkPacket const&)
NetworkPacket_assign ==
    \E s, o \in PacketSlots :
        /\ net.packets[s].live
        /\ net.packets[o].live
        /\ Called("operator=(NetworkPacket const&)", s, net.packets[s],
                  net.packets[o].sendingNode, net.packets[o].byteArray)

\* NetworkPacket::NetworkPacket(NetworkPacket&&), under HAS_MOVE_SEMANTICS
NetworkPacket_move ==
    \E s, o \in PacketSlots :
        /\ net.move
        /\ ~net.packets[s].live
        /\ net.packets[o].live
        /\ Called("NetworkPacket(NetworkPacket&&)", s, DefaultPacket,
                  net.packets[o].sendingNode, net.packets[o].byteArray)

\* NetworkPacket::operator=(NetworkPacket&&), under HAS_MOVE_SEMANTICS
NetworkPacket_moveAssign ==
    \E s, o \in PacketSlots :
        /\ net.move
        /\ net.packets[s].live
        /\ net.packets[o].live
        /\ Called("operator=(NetworkPacket&&)", s, net.packets[s],
                  net.packets[o].sendingNode, net.packets[o].byteArray)

\* -------------------------------------------------------- specifications
InitData ==
    /\ data = EmptyData
    /\ mem = EmptyMem
    /\ snapshot = [taken |-> FALSE, roots |-> EmptyMem.roots, view |-> EmptyData]
    /\ build \in Builds
    /\ pc = "idle"
    /\ edit = NoEdit
    /\ steps = 0
    /\ hist = [before |-> EmptyData, expands |-> 0, visits |-> 0, overrun |-> FALSE,
               guideSize |-> 0, peak |-> InitSize, boxes |-> {}, inserted |-> {},
               log |-> <<>>, calls |-> <<>>]

Init == InitData /\ net = NoNet

Next ==
    \/ BoxSetEdit_apply
    \/ GlobalSetEdit
    \/ InsertSpannerEdit
    \/ RemoveSpannerEdit
    \/ ClearSpannersEdit
    \/ SetDataEdit
    \/ SetSpannerEdit_apply
    \/ PaintHeightfieldHeightEdit
    \/ HeightfieldMaterialSpannerEdit

Spec == Init /\ [][Next]_vars

\* the edits, with a reader that captures the data at some point
NextCow == Next \/ TakeSnapshot
SpecCow == Init /\ [][NextCow]_vars

\* the packets alone, built with or without HAS_MOVE_SEMANTICS
InitPacket ==
    /\ InitData
    /\ build = "voxelize"
    /\ net \in {[NoNet EXCEPT !.move = m] : m \in BOOLEAN}

NextPacket ==
    \/ NetworkPacket_fromBytes
    \/ NetworkPacket_copy
    \/ NetworkPacket_assign
    \/ NetworkPacket_move
    \/ NetworkPacket_moveAssign

SpecPacket == InitPacket /\ [][NextPacket]_vars

\* the edits that follow the InsertSpannerEdit of one spanner into fresh
\* data: the behaviour starts where that apply has returned, and up to
\* MaxEdits edits follow it
InsertedFirst(b, id) ==
    IF b = "voxelize"
    THEN InsertSpannerEdit_apply(EmptyData, InsertSpannerEdit_edit(SpannersAttribute, id))
    ELSE InsertSpannerEdit_apply_paint(EmptyData,
                                       InsertSpannerEdit_edit(SpannersAttribute, id))

InitInserted ==
    /\ build \in Builds
    /\ \E id \in SpannerIds :
           /\ edit = InsertSpannerEdit_edit(SpannersAttribute, id)
           /\ data = InsertedFirst(build, id).data
           /\ hist = [before |-> EmptyData, expands |-> 0,
                      visits |-> InsertedFirst(build, id).visits,
                      overrun |-> InsertedFirst(build, id).overrun,
                      guideSize |-> data.size, peak |-> IMax(InitSize, data.size),
                      boxes |-> {Spanner(id).bounds}, inserted |-> {id},
                      log |-> InsertedFirst(build, id).log,
                      calls |-> InsertedFirst(build, id).calls]
    /\ mem = Stored(EmptyMem, data.roots)
    /\ snapshot = [taken |-> FALSE, roots |-> EmptyMem.roots, view |-> EmptyData]
    /\ pc = "idle"
    /\ steps = 0
    /\ net = NoNet

SpecInserted == InitInserted /\ [][Next]_vars

TypeOK ==
    /\ data.size \in {InitSize, 2 * InitSize, 4 * InitSize}
    /\ pc \in {"idle", "BoxSetEdit", "SetSpannerEdit", "RemoveSpannerEdit",
              "RemoveSpannerEdit_return"}
    /\ steps \in 0..MaxEdits


\* ------------------------------------------------------------ properties
Done(kind) == pc = "idle" /\ edit.kind = kind

RECURSIVE IsPowerOfTwo(_)
IsPowerOfTwo(n) == n = 1 \/ (n > 1 /\ n % 2 = 0 /\ IsPowerOfTwo(n \div 2))

\* the value at a cell of a data that may not reach it yet: what lies
\* outside the bounds holds the default
ValueAtOrDefault(d, attribute, p) ==
    IF p \in Cells(d) THEN ValueAt(d, attribute, p) ELSE DefaultValue

\* the cell with lowest corner p lies in the box
CellInside(p, box) ==
    BoxContains(box, Box(p, VAdd(p, Vec(Resolution, Resolution, Resolution))))

\* C1: the bounds never shrink, are a power-of-two cube, and contain the
\* region of every BoxSetEdit and the bounds of every spanner inserted or
\* set so far
C1_BoundsGrowAndContain ==
    /\ data.size = hist.peak
    /\ data.size >= hist.before.size
    /\ IsPowerOfTwo(data.size)
    /\ GetBounds(data).maximum = Vec(data.size \div 2, data.size \div 2, data.size \div 2)
    /\ \A b \in hist.boxes : BoxContains(GetBounds(data), b)

C1_Witness ==
    /\ pc = "idle"
    /\ data.size = 4 * InitSize
    /\ \E b \in hist.boxes : ~BoxContains(GetBounds(hist.before), b)
    /\ \E b \in hist.boxes : BoxContains(GetBounds(EmptyData), b)


\* C3: after GlobalSetEdit.apply of value v for attribute A every position
\* inside the bounds reads v for A, whatever the tree held; the visitor ran
\* on the root alone and the root is not subdivided
C3_GlobalSetEverywhere ==
    Done("GlobalSetEdit") =>
        /\ \A p \in Cells(data) : ValueAt(data, edit.attribute, p) = edit.value
        /\ hist.visits = 1
        /\ IsLeaf(data.roots[edit.attribute])
        /\ data.size = hist.before.size

C3_Witness ==
    /\ Done("GlobalSetEdit")
    /\ ~IsLeaf(hist.before.roots[edit.attribute])
    /\ data.size > InitSize
    /\ \E p \in Cells(data) : ValueAt(hist.before, edit.attribute, p) = DefaultValue

\* C4: RemoveSpannerEdit.apply with an id the object table does not hold
\* leaves the bounds, every tree and the spanner collections as they were,
\* and so does applying it again
C4_RemoveUnknownIsNoOp ==
    (Done("RemoveSpannerEdit") /\ edit.object = 0) =>
        /\ data = hist.before
        /\ hist.visits = 0
        /\ RemoveSpannerEdit_apply(data, edit).data = data
        /\ RemoveSpannerEdit_apply_paint(data, edit).data = data

C4_Witness ==
    /\ Done("RemoveSpannerEdit")
    /\ edit.object = 0
    /\ edit.id \in SpannerIds
    /\ \E a \in VoxelAttrs : ~IsLeaf(data.roots[a])

\* C5: a spanner was inserted into fresh data and other edits followed;
\* after a RemoveSpannerEdit of its id under the same attribute, whatever the
\* edits in between were, getIntersecting over the spanner's bounds does not
\* return the spanner
C5_RemovedIsNotFound ==
    (Done("RemoveSpannerEdit") /\ edit.id \in SpannerIds) =>
        edit.id \notin GetIntersecting(data, edit.attribute, Spanner(edit.id).bounds)

\* the remove is the second edit after the insert of the spanner; the edit
\* in between was no insert and doubled the bounds, and the spanner was
\* still found before the remove
C5_Witness ==
    /\ Done("RemoveSpannerEdit")
    /\ steps = 2
    /\ edit.id \in SpannerIds
    /\ edit.object = edit.id
    /\ hist.inserted = {}
    /\ hist.before.size > InsertedFirst(build, edit.id).data.size
    /\ edit.id \in GetIntersecting(hist.before, edit.attribute, Spanner(edit.id).bounds)

\* C6 as stated: right after InsertSpannerEdit.apply of spanner s,
\* getIntersecting over the bounds of s returns s and nothing else
C6_Original ==
    Done("InsertSpannerEdit") =>
        GetIntersecting(data, edit.attribute, Spanner(edit.object).bounds) = {edit.object}

\* C6, amended: right after InsertSpannerEdit.apply of spanner s,
\* getIntersecting over the bounds of s returns s together with the spanners
\* the collection already held whose bounds meet those of s, so s alone
\* when there is no such spanner
C6_InsertedIsFound ==
    Done("InsertSpannerEdit") =>
        GetIntersecting(data, edit.attribute, Spanner(edit.object).bounds)
            = {edit.object} \cup
              {o \in hist.before.spanners[edit.attribute] :
                  BoxIntersects(Spanner(o).bounds, Spanner(edit.object).bounds)}

C6_Witness ==
    /\ Done("InsertSpannerEdit")
    /\ hist.before.spanners[edit.attribute] = {}
    /\ data.size > hist.before.size
    /\ GetIntersecting(data, edit.attribute, Spanner(edit.object).bounds) = {edit.object}

\* the nodes of edge s of the octree grid, by their lowest corners
GridNodes(d, s) ==
    LET r == {k \in (-(d.size \div 2))..((d.size \div 2) - 1) : (k + d.size \div 2) % s = 0}
    IN  {Vec(x, y, z) : x \in r, y \in r, z \in r}

\* the cells of the node of edge s with lowest corner m
NodeCells(m, s) ==
    (m[1]..(m[1] + s - Resolution)) \X (m[2]..(m[2] + s - Resolution))
        \X (m[3]..(m[3] + s - Resolution))

\* how many cells a node of edge s has
CellCount(s) == (s \div Resolution) * (s \div Resolution) * (s \div Resolution)

\* how many cells of the node the region covers
Covered(m, s, region) == Cardinality({p \in NodeCells(m, s) : CellInside(p, region)})

\* C7: a node at the granularity limit that the region covers only partly
\* takes the edit value when at least half of its volume is covered, and
\* keeps what it held, unrefined, when less is
C7_TieBreak ==
    Done("BoxSetEdit") =>
        LET s == FirstSizeNotAbove(data.size, edit.granularity)
        IN  s <= edit.granularity =>
                \A m \in GridNodes(data, s) :
                    LET c == Covered(m, s, edit.region)
                    IN  (0 < c /\ c < CellCount(s)) =>
                            IF 2 * c >= CellCount(s)
                            THEN \A p \in NodeCells(m, s) :
                                     ValueAt(data, edit.attribute, p) = edit.value
                            ELSE \A p \in NodeCells(m, s) :
                                     ValueAt(data, edit.attribute, p)
                                         = ValueAtOrDefault(hist.before, edit.attribute, p)

C7_Witness ==
    /\ Done("BoxSetEdit")
    /\ data.size > edit.granularity
    /\ \E m \in GridNodes(data, InitSize) :
           /\ 2 * Covered(m, InitSize, edit.region) = CellCount(InitSize)
           /\ edit.granularity = InitSize
           /\ \E p \in NodeCells(m, InitSize) :
                  /\ ~CellInside(p, edit.region)
                  /\ ValueAtOrDefault(hist.before, edit.attribute, p) # edit.value
                  /\ ValueAt(data, edit.attribute, p) = edit.value

\* C8: a BoxSetEdit of granularity 0 gives the edit value to every cell
\* inside the region and changes no cell outside it
C8_ExactAtGranularityZero ==
    (Done("BoxSetEdit") /\ edit.granularity = 0) =>
        \A p \in Cells(data) :
            IF CellInside(p, edit.region)
            THEN ValueAt(data, edit.attribute, p) = edit.value
            ELSE ValueAt(data, edit.attribute, p)
                     = ValueAtOrDefault(hist.before, edit.attribute, p)

C8_Witness ==
    /\ Done("BoxSetEdit")
    /\ edit.granularity = 0
    /\ hist.visits > 9
    /\ \E p \in Cells(data) :
           CellInside(p, edit.region)
               /\ ValueAtOrDefault(hist.before, edit.attribute, p) # edit.value
    /\ \E p \in Cells(data) :
           ~CellInside(p, edit.region) /\ ValueAt(data, edit.attribute, p) # DefaultValue

\* the bounds of a data of edge size
BoundsOfSize(size) ==
    Box(Vec(-(size \div 2), -(size \div 2), -(size \div 2)),
        Vec(size \div 2, size \div 2, size \div 2))

\* C9: BoxSetEdit.apply expands until the bounds contain the region and
\* only then traverses: the bounds contain the region when guide is
\* invoked and when apply returns, no expansion is made beyond the first
\* bounds that contain it, and none when they contained it from the start
C9_ExpandThenGuide ==
    Done("BoxSetEdit") =>
        /\ BoxContains(BoundsOfSize(hist.guideSize), edit.region)
        /\ BoxContains(GetBounds(data), edit.region)
        /\ data.size = hist.guideSize
        /\ hist.guideSize = hist.before.size * 2^hist.expands
        /\ hist.expands > 0 => ~BoxContains(BoundsOfSize(data.size \div 2), edit.region)
        /\ BoxContains(GetBounds(hist.before), edit.region) => hist.expands = 0

C9_Witness ==
    /\ Done("BoxSetEdit")
    /\ hist.expands = 2
    /\ hist.visits > 1


\* the ids of the nodes a root reaches
RECURSIVE Reached(_, _)
Reached(heap, id) ==
    IF id = NullNode THEN {}
    ELSE {id} \cup UNION {Reached(heap, ChildIds(heap, id)[k]) : k \in 1..CHILD_COUNT}

\* the store holds the trees of the data
MemHoldsData == \A a \in VoxelAttrs : TreeAt(mem.heap, mem.roots[a]) = data.roots[a]

\* C2: what a captured reference reads stays what it read when it was
\* captured, whatever edits are applied to the other handle afterwards
C2_SnapshotIsolation ==
    /\ MemHoldsData
    /\ snapshot.taken =>
           \A a \in VoxelAttrs :
               /\ TreeAt(mem.heap, snapshot.roots[a]) = snapshot.view.roots[a]
               /\ \A p \in Cells(snapshot.view) :
                      NodeValueAt(TreeAt(mem.heap, snapshot.roots[a]),
                                  GetBounds(snapshot.view).minimum, snapshot.view.size, p)
                          = ValueAt(snapshot.view, a, p)

C2_Witness ==
    /\ snapshot.taken
    /\ pc = "idle"
    /\ edit.kind = "BoxSetEdit"
    /\ data.size = snapshot.view.size
    /\ ~IsLeaf(snapshot.view.roots["color"])
    /\ data.roots["color"] # snapshot.view.roots["color"]
    /\ Reached(mem.heap, mem.roots["color"])
           \cap Reached(mem.heap, snapshot.roots["color"]) # {}

\* the nodes of a tree of edge size that is subdivided down to the minimum
\* meaningful size everywhere
RECURSIVE MaxVisits(_)
MaxVisits(size) == IF size <= MinNodeSize THEN 1 ELSE 1 + CHILD_COUNT * MaxVisits(size \div 2)

\* the box that the expand loop of the apply in progress must come to contain
LoopTarget == IF edit.kind = "SetSpannerEdit" THEN Spanner(edit.object).bounds ELSE edit.region

\* how many doublings bounds of edge size are away from containing the box
RECURSIVE Doublings(_, _)
Doublings(size, box) ==
    IF BoxContains(BoundsOfSize(size), box) THEN 0 ELSE 1 + Doublings(2 * size, box)

DoublingsLeft == Doublings(data.size, LoopTarget)

\* how many steps the apply in progress is away from its return
StepsLeft ==
    CASE pc = "idle" -> 0
      [] pc = "RemoveSpannerEdit" -> 2
      [] pc = "RemoveSpannerEdit_return" -> 1
      [] OTHER -> DoublingsLeft + 1

\* a region with no extent, or a negative one, on some axis
Degenerate(region) ==
    \E i \in 1..3 : region.maximum[i] - region.minimum[i] <= 0

ValuesKept ==
    \A a \in VoxelAttrs : \A p \in Cells(data) :
        ValueAt(data, a, p) = ValueAtOrDefault(hist.before, a, p)

\* C12: a BoxSetEdit whose region has a zero or negative extent on some axis
\* completes without a visitor asking for a subdivision the tree cannot give,
\* every node it visits is left (STOP_RECURSION, no output written), and the
\* value at every position is what it was before the edit.
C12_DegenerateRegionWritesNothing ==
    (Done("BoxSetEdit") /\ Degenerate(edit.region)) =>
        /\ ~hist.overrun
        /\ hist.visits >= 1
        /\ \A i \in 1..Len(hist.log) :
               /\ hist.log[i].order = STOP_RECURSION
               /\ hist.log[i].outputValues = <<Unset>>
        /\ ValuesKept

\* a zero-extent region that made the bounds double, applied over data that
\* holds a value other than the edit's
C12_Witness ==
    /\ Done("BoxSetEdit")
    /\ Degenerate(edit.region)
    /\ edit.region.maximum[1] = edit.region.minimum[1]
    /\ hist.expands > 0
    /\ \E p \in Cells(hist.before) :
           ValueAt(hist.before, "color", p) \notin {DefaultValue, edit.value}

\* the cells of a node
CellsOf(info) ==
    LET low == VMax(info.minimum, GetBounds(data).minimum)
        high == VMin(InfoBounds(info).maximum, GetBounds(data).maximum)
    IN  (low[1]..(high[1] - Resolution)) \X (low[2]..(high[2] - Resolution))
            \X (low[3]..(high[3] - Resolution))

\* C16: a node the BoxSetEdit traversal visits that lies inside the region is
\* assigned the edit value and left with STOP_RECURSION, whether its size is
\* above the granularity or not; afterwards every position of the node holds
\* the edit value.
C16_FullNodeIsSet ==
    Done("BoxSetEdit") =>
        \A i \in 1..Len(hist.log) :
            BoxContains(edit.region, InfoBounds(hist.log[i].info)) =>
                /\ hist.log[i].order = STOP_RECURSION
                /\ hist.log[i].outputValues = <<edit.value>>
                /\ \A p \in CellsOf(hist.log[i].info) :
                       ValueAt(data, edit.attribute, p) = edit.value

\* a node below the root, larger than the granularity, inside the region,
\* that held another value before
C16_Witness ==
    /\ Done("BoxSetEdit")
    /\ \E i \in 1..Len(hist.log) :
           /\ BoxContains(edit.region, InfoBounds(hist.log[i].info))
           /\ hist.log[i].info.size > edit.granularity
           /\ hist.log[i].info.parents # <<>>
           /\ \E p \in CellsOf(hist.log[i].info) :
                  ValueAtOrDefault(hist.before, edit.attribute, p) # edit.value

\* the node's box clipped to the region has no extent on some axis
NoOverlap(region, info) ==
    \E i \in 1..3 :
        IMin(info.minimum[i] + info.size, region.maximum[i])
            - IMax(info.minimum[i], region.minimum[i]) <= 0

\* C17: a node the BoxSetEdit traversal visits whose overlap with the region
\* is <= 0 (no extent on some axis) is left with STOP_RECURSION and no output
\* written, and every position of the node holds what it held before.
C17_DisjointNodeIsKept ==
    Done("BoxSetEdit") =>
        \A i \in 1..Len(hist.log) :
            NoOverlap(edit.region, hist.log[i].info) =>
                /\ hist.log[i].order = STOP_RECURSION
                /\ hist.log[i].outputValues = <<Unset>>
                /\ \A p \in CellsOf(hist.log[i].info) : \A a \in VoxelAttrs :
                       ValueAt(data, a, p) = ValueAtOrDefault(hist.before, a, p)

\* a disjoint node below the root that holds a value other than the default
\* and the edit's, in a traversal that wrote another node
C17_Witness ==
    /\ Done("BoxSetEdit")
    /\ \E i, j \in 1..Len(hist.log) :
           /\ NoOverlap(edit.region, hist.log[i].info)
           /\ hist.log[i].info.parents # <<>>
           /\ \E p \in CellsOf(hist.log[i].info) :
                  ValueAt(data, edit.attribute, p) \notin {DefaultValue, edit.value}
           /\ hist.log[j].outputValues = <<edit.value>>

\* the boxes a caller may query: each region, each spanner's bounds, the bounds
QueryBoxes == Regions \cup {Spanner(id).bounds : id \in SpannerIds} \cup {GetBounds(data)}

\* C20: after ClearSpannersEdit the attribute's collection is empty, so the
\* intersection query finds no spanner for any box; the apply made no
\* traversal, and the bounds and every voxel attribute's tree are as before.
C20_ClearEmptiesAndKeeps ==
    Done("ClearSpannersEdit") =>
        /\ data.spanners[edit.attribute] = {}
        /\ \A box \in QueryBoxes : GetIntersecting(data, edit.attribute, box) = {}
        /\ hist.visits = 0
        /\ hist.log = <<>>
        /\ data.size = hist.before.size
        /\ data.roots = hist.before.roots

\* a clear of a collection that held a spanner, over bounds that had grown
\* and a tree that holds what a spanner voxelized to
C20_Witness ==
    /\ Done("ClearSpannersEdit")
    /\ hist.before.spanners[edit.attribute] # {}
    /\ data.size > InitSize
    /\ ~IsLeaf(data.roots["spannerColor"])

\* an insert or a remove of a known spanner has revoxelized
Revoxelized ==
    /\ pc = "idle"
    /\ build = "voxelize"
    /\ edit.kind \in {"InsertSpannerEdit", "RemoveSpannerEdit"}
    /\ edit.object # 0

\* the node of a visit meets the bounds of the edit's spanner
MeetsSpanner(visit) == BoxIntersects(InfoBounds(visit.info), Spanner(edit.object).bounds)

\* the outputs of a visit that blends the spanner set its k-th ancestor read
\* (k = 1 is the parent); the defaults when the node has no such ancestor
BlendedFrom(visit, k) ==
    IF k >= 1 /\ Len(visit.info.parents) >= k
    THEN BlendEach(visit.info.parents[k].inputValues[2],
                   [visit.info EXCEPT !.outputValues = <<DefaultValue>>])
    ELSE <<DefaultValue>>

\* round(log2(lodThresholdMultiplier) - 2)
AncestorSteps == RoundLog2(SPANNER_LOD_THRESHOLD_MULTIPLIER) - 2

\* C14, as stated: the ancestor whose spanner set the update visitor blends
\* into a node is `steps` parentInfo links above the node's own info.
C14_Original ==
    Revoxelized =>
        \A i \in 1..Len(hist.log) :
            MeetsSpanner(hist.log[i]) =>
                hist.log[i].outputValues = BlendedFrom(hist.log[i], AncestorSteps)

\* C14, corrected: the walk starts at the node's parent and goes `steps` links
\* further, so the ancestor is steps + 1 links above the node's own info; a
\* node with fewer ancestors than that gets the defaults and no blend.
C14_AncestorAboveParent ==
    Revoxelized =>
        \A i \in 1..Len(hist.log) :
            MeetsSpanner(hist.log[i]) =>
                hist.log[i].outputValues = BlendedFrom(hist.log[i], AncestorSteps + 1)

\* an insert after which a node took a spanner's value from the ancestor
\* above its parent, its parent having read no spanner
C14_Witness ==
    /\ Revoxelized
    /\ edit.kind = "InsertSpannerEdit"
    /\ \E i \in 1..Len(hist.log) :
           /\ MeetsSpanner(hist.log[i])
           /\ Len(hist.log[i].info.parents) >= AncestorSteps + 1
           /\ hist.log[i].info.parents[AncestorSteps].inputValues[2] = {}
           /\ hist.log[i].outputValues # <<DefaultValue>>

\* C15: the update visitor asks for the children of a node that meets the
\* spanner while node.size > voxelizationSize = max(longest side, placement
\* granularity) * 2 / lodThresholdMultiplier, and never of a node of size <=
\* voxelizationSize; so every node it visits below the root has a parent
\* larger than voxelizationSize, and the traversal never asks for children
\* that the tree cannot give.
C15_StopsAtVoxelizationSize ==
    Revoxelized =>
        /\ ~hist.overrun
        /\ \A i \in 1..Len(hist.log) :
               LET visit == hist.log[i]
                   s == Spanner(edit.object)
                   num == IMax(GetLongestSide(s.bounds), s.granularity) * 2
                   den == SPANNER_LOD_THRESHOLD_MULTIPLIER
               IN  /\ visit.info.size * den <= num => visit.order = STOP_RECURSION
                   /\ (visit.info.size * den > num /\ MeetsSpanner(visit)) =>
                          visit.order = DEFAULT_ORDER
                   /\ visit.info.parents # <<>> =>
                          visit.info.parents[1].size * den > num

\* a traversal that subdivided a node of twice the voxelization size and
\* stopped at a node of the voxelization size that is above the minimum
\* meaningful size
C15_Witness ==
    /\ Revoxelized
    /\ \E i, j \in 1..Len(hist.log) :
           LET s == Spanner(edit.object)
               num == IMax(GetLongestSide(s.bounds), s.granularity) * 2
               den == SPANNER_LOD_THRESHOLD_MULTIPLIER
           IN  /\ MeetsSpanner(hist.log[i]) /\ MeetsSpanner(hist.log[j])
               /\ hist.log[i].info.size * den = num
               /\ hist.log[i].info.size > MinNodeSize
               /\ hist.log[i].order = STOP_RECURSION
               /\ hist.log[j].info.size = 2 * hist.log[i].info.size
               /\ hist.log[j].order = DEFAULT_ORDER

\* the apply of a RemoveSpannerEdit of a known id is between taking its
\* reference and its return: before data.remove and the traversal
\* ("RemoveSpannerEdit") or after them ("RemoveSpannerEdit_return").  Nothing
\* takes or drops a reference while the traversal runs, so the count in the
\* state after it is the count at each of its visits.
Removing == pc \in {"RemoveSpannerEdit", "RemoveSpannerEdit_return"}

\* C13: from the step that looks the object up until the apply returns, the
\* apply holds an owning reference to the spanner, so the spanner's count of
\* owning references is at least 1 before data.remove, during the traversal
\* and after it; the step that unlinks the spanner leaves the reference held.
C13_ReferenceHeld ==
    /\ [](Removing => /\ edit.object # 0
                      /\ edit.sharedPointer = edit.object
                      /\ ReferenceCount(data, edit) >= 1)
    /\ [][pc = "RemoveSpannerEdit" =>
              /\ edit.object \notin data'.spanners[edit.attribute]
              /\ edit'.sharedPointer = edit.object
              /\ ReferenceCount(data', edit') >= 1]_vars

\* the traversal has run over data in which only the apply's reference was
\* left: the nodes held the spanner before, nobody else holds it
C13_Witness ==
    /\ pc = "RemoveSpannerEdit_return"
    /\ edit.holders = 0
    /\ NodesHolding(hist.before, edit.attribute, edit.object) # {}
    /\ NodesHolding(data, edit.attribute, edit.object) = {}
    /\ ReferenceCount(data, edit) = 1
    /\ hist.visits > 1

\* C11: in HeightfieldMaterialSpannerEdit.apply with paint = false, every call
\* of setMaterial gets the fully transparent color (0,0,0,0) when the average
\* color's alpha is below one half, and the average color itself, same red,
\* green, blue and alpha, when its alpha is one half or more.
C11_FaintColorIsCleared ==
    (Done("HeightfieldMaterialSpannerEdit") /\ ~edit.paint) =>
        \A i \in 1..Len(hist.calls) :
            /\ 2 * edit.averageColor.alpha < 255 =>
                   hist.calls[i].color = QColor(0, 0, 0, 0)
            /\ 2 * edit.averageColor.alpha >= 255 =>
                   hist.calls[i].color = edit.averageColor

\* setMaterial was called for an edit with paint = false and alpha 0.4, and
\* the color it got is not the average color
C11_Witness ==
    /\ Done("HeightfieldMaterialSpannerEdit")
    /\ ~edit.paint
    /\ edit.averageColor.alpha = 102
    /\ hist.calls # <<>>
    /\ hist.calls[1].color # edit.averageColor

\* C19: in HeightfieldMaterialSpannerEdit.apply with paint = true, every call
\* of setMaterial gets the average color's red, green and blue with alpha
\* 1.0, whatever the average color's alpha is, below one half included.
C19_PaintIsOpaque ==
    (Done("HeightfieldMaterialSpannerEdit") /\ edit.paint) =>
        \A i \in 1..Len(hist.calls) :
            hist.calls[i].color =
                QColor(edit.averageColor.red, edit.averageColor.green,
                       edit.averageColor.blue, 255)

\* setMaterial was called for an edit with paint = true and alpha 0.4
C19_Witness ==
    /\ Done("HeightfieldMaterialSpannerEdit")
    /\ edit.paint
    /\ edit.averageColor.alpha = 102
    /\ hist.calls # <<>>
    /\ hist.calls[1].color.alpha = 255

\* a paint edit has been applied
Painted ==
    pc = "idle" /\ edit.kind \in {"PaintHeightfieldHeightEdit", "HeightfieldMaterialSpannerEdit"}

\* the box a paint edit queries, against bounds in hundredths
PaintQuery(d) ==
    IF edit.kind = "PaintHeightfieldHeightEdit"
    THEN LET ext == (edit.radius * 11) \div 10
         IN
         {id \in d.spanners[SpannersAttribute] :
             BoxIntersects(InHundredths(Spanner(id).bounds),
                           Box(VSub(edit.position, Vec(ext, ext, ext)),
                               VAdd(edit.position, Vec(ext, ext, ext))))}
    ELSE GetIntersecting(d, SpannersAttribute, Spanner(edit.object).bounds)

\* C18: PaintHeightfieldHeightEdit.apply and HeightfieldMaterialSpannerEdit.apply
\* call paintHeight or setMaterial once for each spanner the intersection
\* query returned; where the call returned another instance the collection
\* afterwards holds the new instance and not the old one, where it returned
\* the same instance the collection still holds it, and nothing else in the
\* data has changed; when every call returned the same instance the data is
\* as it was.
C18_ReplacedWhenNew ==
    Painted =>
        LET before == hist.before.spanners[SpannersAttribute]
            after == data.spanners[SpannersAttribute]
            calls == {hist.calls[i] : i \in 1..Len(hist.calls)}
            old == {c.on : c \in {k \in calls : k.returned # k.on}}
            new == {c.returned : c \in {k \in calls : k.returned # k.on}}
        IN  /\ {c.on : c \in calls} = PaintQuery(hist.before)
            /\ Cardinality(calls) = Len(hist.calls)
            /\ \A c \in calls :
                   IF c.returned # c.on
                   THEN c.returned \in after /\ c.on \notin after
                   ELSE c.on \in after
            /\ after = (before \ old) \cup new
            /\ data = [hist.before EXCEPT !.spanners[SpannersAttribute] = after]
            /\ old = {} => data = hist.before

\* a height brush put down beside a spanner, within the extended radius of
\* it and not within the radius, for which paintHeight returned a new
\* instance: the collection holds the new instance and not the old one
C18_Witness ==
    /\ Painted
    /\ edit.kind = "PaintHeightfieldHeightEdit"
    /\ edit.position = Vec(610, 100, 100)
    /\ \E i \in 1..Len(hist.calls) :
           /\ hist.calls[i].returned # hist.calls[i].on
           /\ hist.calls[i].on \in hist.before.spanners[SpannersAttribute]
           /\ hist.calls[i].on \notin data.spanners[SpannersAttribute]
           /\ hist.calls[i].returned \in data.spanners[SpannersAttribute]

\* the nodes of the visits of the last traversal, in the order of the visits
VisitedNodes == [i \in 1..Len(hist.log) |-> <<hist.log[i].info.minimum, hist.log[i].info.size>>]

\* C21: SetSpannerEdit.apply doubles the bounds while they do not contain the
\* spanner's bounds and traverses only once they do; the traversal visits no
\* node twice, and each visit is one call of spanner.blendAttributeValues(info):
\* the outputs of the visit are those of the call, and the visit returns
\* DEFAULT_ORDER exactly when the call returned true.
C21_BlendOncePerNode ==
    /\ [](Done("SetSpannerEdit") =>
            /\ BoxContains(BoundsOfSize(hist.guideSize), Spanner(edit.object).bounds)
            /\ hist.guideSize = hist.before.size * 2^hist.expands
            /\ hist.visits = Len(hist.log)
            /\ \A i, j \in 1..Len(hist.log) : VisitedNodes[i] = VisitedNodes[j] => i = j
            /\ \A i \in 1..Len(hist.log) :
                   LET b == BlendAttributeValues(Spanner(edit.object), hist.log[i].info, FALSE)
                   IN  /\ hist.log[i].outputValues = b.outputValues
                       /\ hist.log[i].order = DEFAULT_ORDER <=> b.subdivide
                       /\ hist.log[i].order = STOP_RECURSION <=> ~b.subdivide)
    /\ [][pc = "SetSpannerEdit" =>
              IF BoxContains(GetBounds(data), Spanner(edit.object).bounds)
              THEN pc' = "idle" /\ data'.size = data.size /\ hist'.log # <<>>
              ELSE pc' = pc /\ data'.size = 2 * data.size /\ hist'.log = <<>>]_vars

\* a SetSpannerEdit that doubled the bounds, in whose traversal the spanner
\* asked for the children of one node and blended itself into another
C21_Witness ==
    /\ Done("SetSpannerEdit")
    /\ hist.expands >= 1
    /\ \E i, j \in 1..Len(hist.log) :
           /\ hist.log[i].order = DEFAULT_ORDER
           /\ hist.log[j].order = STOP_RECURSION
           /\ hist.log[j].outputValues # <<Unset>>
           /\ hist.log[j].info.parents # <<>>

\* a tree whose nodes are leaves or have CHILD_COUNT children
RECURSIVE EightOrNone(_)
EightOrNone(n) ==
    \/ n.children = <<>>
    \/ /\ Len(n.children) = CHILD_COUNT
       /\ \A k \in 1..CHILD_COUNT : EightOrNone(n.children[k])

\* the MetavoxelNode objects the data reaches
ReachedNodes == UNION {Reached(mem.heap, mem.roots[a]) : a \in VoxelAttrs}

\* C22: at every moment, between edits and within one, every node that the
\* data reaches is a leaf with no children or has exactly 8 children, each of
\* them a node: both in the trees the data reads and in the MetavoxelNode
\* objects that hold them.
C22_EightChildrenOrNone ==
    /\ \A a \in VoxelAttrs : EightOrNone(data.roots[a])
    /\ \A id \in ReachedNodes :
           \/ mem.heap[id].children = <<>>
           \/ /\ Len(mem.heap[id].children) = CHILD_COUNT
              /\ \A k \in 1..CHILD_COUNT : mem.heap[id].children[k] # NullNode

\* after two edits, a node with 8 children of which one is a leaf of the
\* default value and another is subdivided itself
C22_Witness ==
    /\ steps = MaxEdits
    /\ \E id \in ReachedNodes :
           /\ mem.heap[id].children # <<>>
           /\ \E j, k \in 1..CHILD_COUNT :
                  /\ mem.heap[mem.heap[id].children[j]]
                         = [value |-> DefaultValue, children |-> <<>>]
                  /\ mem.heap[mem.heap[id].children[k]].children # <<>>

\* the extents, axis by axis, of a node's box clipped to a region
Extents(region, info) ==
    [i \in 1..3 |-> IMin(info.minimum[i] + info.size, region.maximum[i])
                        - IMax(info.minimum[i], region.minimum[i])]

\* two extents are negative and the third is positive: the product of the
\* three is positive
TwoAxesNegative(e) ==
    /\ Cardinality({i \in 1..3 : e[i] < 0}) = 2
    /\ e[1] * e[2] * e[3] > 0

\* C24: the BoxSetEdit traversal writes or subdivides a node only when its
\* box clipped to the region has a positive extent on each of the three axes;
\* a visited node with a negative extent on two axes, where the product of
\* the three extents is positive, is left with STOP_RECURSION and no output
\* written, and every position of it holds what it held before.
C24_DisjointPerAxis ==
    Done("BoxSetEdit") =>
        \A i \in 1..Len(hist.log) :
            LET e == Extents(edit.region, hist.log[i].info)
            IN  /\ (hist.log[i].order # STOP_RECURSION \/ hist.log[i].outputValues # <<Unset>>)
                       => \A k \in 1..3 : e[k] > 0
                /\ TwoAxesNegative(e) =>
                       /\ hist.log[i].order = STOP_RECURSION
                       /\ hist.log[i].outputValues = <<Unset>>
                       /\ \A p \in CellsOf(hist.log[i].info) :
                              ValueAt(data, edit.attribute, p)
                                  = ValueAtOrDefault(hist.before, edit.attribute, p)

\* a visited node below the root with two negative extents, which a test on
\* the product of the extents would have subdivided, holding a value other
\* than the edit's
C24_Witness ==
    /\ Done("BoxSetEdit")
    /\ \E i \in 1..Len(hist.log) :
           LET e == Extents(edit.region, hist.log[i].info)
               n == hist.log[i].info.size
           IN  /\ TwoAxesNegative(e)
               /\ 2 * e[1] * e[2] * e[3] < n * n * n
               /\ hist.log[i].info.parents # <<>>
               /\ \E p \in CellsOf(hist.log[i].info) :
                      ValueAt(data, edit.attribute, p) \notin {DefaultValue, edit.value}

\* the visits of the last traversal that wrote the edit value into a node
\* the region overlaps
WrittenVisits ==
    {i \in 1..Len(hist.log) : /\ hist.log[i].outputValues = <<edit.value>>
                               /\ ~NoOverlap(edit.region, hist.log[i].info)}

\* what a BoxSetEdit does to the positions of its own attribute: each holds
\* the value it held or the edit value, and one that changed lies in a
\* visited node that overlaps the region
OwnTreeFrame ==
    \A p \in Cells(data) :
        LET new == ValueAt(data, edit.attribute, p)
            old == ValueAtOrDefault(hist.before, edit.attribute, p)
        IN  /\ new \in {old, edit.value}
            /\ new # old => \E i \in WrittenVisits : p \in CellsOf(hist.log[i].info)

\* C25 as stated: besides the frame of the edit's own attribute, the tree of
\* every other attribute and the spanner collection are what they were.
C25_Original ==
    Done("BoxSetEdit") =>
        /\ OwnTreeFrame
        /\ \A a \in VoxelAttrs \ {edit.attribute} : data.roots[a] = hist.before.roots[a]
        /\ data.spanners = hist.before.spanners

\* C25: after a BoxSetEdit every position holds, for the edit's attribute,
\* the value it held before (the default where the bounds did not reach) or
\* the edit value, and a position whose value changed lies in a visited node
\* that overlaps the region; every other attribute holds at every position
\* what it held before, its tree being the same tree when the edit did not
\* expand the bounds and re-rooted by each doubling when it did; the spanner
\* collection is unchanged.
C25_BoxSetFrame ==
    Done("BoxSetEdit") =>
        /\ OwnTreeFrame
        /\ \A a \in VoxelAttrs \ {edit.attribute} :
               /\ \A p \in Cells(data) :
                      ValueAt(data, a, p) = ValueAtOrDefault(hist.before, a, p)
               /\ hist.expands = 0 => data.roots[a] = hist.before.roots[a]
               /\ data.roots[a] = ExpandToContain(hist.before, edit.region).roots[a]
        /\ data.spanners = hist.before.spanners

\* an expanding BoxSetEdit that changed a position, over data that holds a
\* spanner and its voxelized values, whose tree the doubling re-rooted
C25_Witness ==
    /\ Done("BoxSetEdit")
    /\ hist.expands >= 1
    /\ \E a \in SpannerAttrs : data.spanners[a] # {}
    /\ \E p \in Cells(hist.before) :
           ValueAt(hist.before, "spannerColor", p) # DefaultValue
    /\ \E p \in Cells(data) :
           ValueAt(data, edit.attribute, p) # ValueAtOrDefault(hist.before, edit.attribute, p)
    /\ data.roots["spannerColor"] # hist.before.roots["spannerColor"]

\* BoxSetEdit::apply in one go: the doublings, then the traversal
BoxSetEdit_result(d, e) == Guide(ExpandToContain(d, e.region), BoxSetEditVisitor(e))

\* two regions, each with an extent on every axis, whose common part has no
\* extent on some axis
RegionsDisjoint(a, b) ==
    /\ ~Degenerate(a)
    /\ ~Degenerate(b)
    /\ \E i \in 1..3 :
           IMin(a.maximum[i], b.maximum[i]) - IMax(a.minimum[i], b.minimum[i]) <= 0

\* a traversal that rounded no node: every node it left lies inside the
\* region or has no overlap with it
NoRounding(log, region) ==
    \A i \in 1..Len(log) :
        log[i].order = STOP_RECURSION =>
            \/ NoOverlap(region, log[i].info)
            \/ BoxContains(region, InfoBounds(log[i].info))

\* the same value at every position: the same tree, or trees that differ in
\* shape only
SameValues(d1, d2, attribute) ==
    /\ d1.size = d2.size
    /\ \/ d1.roots[attribute] = d2.roots[attribute]
       \/ \A p \in Cells(d1) : ValueAt(d1, attribute, p) = ValueAt(d2, attribute, p)

\* a the result of the other edit on the data before, ab that of the state's
\* edit after it, ba that of the other edit after the state's edit
InEitherOrder(a, ab, ba, other, exactOnly) ==
    \/ /\ exactOnly
       /\ ~(/\ NoRounding(a.log, other.region) /\ NoRounding(ba.log, other.region)
            /\ NoRounding(ab.log, edit.region))
    \/ SameValues(ab.data, ba.data, edit.attribute)

ThenEdit(a, ba, other, exactOnly) ==
    InEitherOrder(a, BoxSetEdit_result(a.data, edit), ba, other, exactOnly)

\* an order of the regions, by their corners
Precedes(a, b) ==
    LET s == a.minimum \o a.maximum
        t == b.minimum \o b.maximum
    IN  \E i \in 1..6 : s[i] < t[i] /\ \A j \in 1..(i - 1) : s[j] = t[j]

\* the state's BoxSetEdit and every BoxSetEdit of the same attribute and
\* granularity on a region disjoint from its own, applied to the data before
\* the state's edit in one order and in the other; a pair of edits is taken
\* once, in the state whose edit has the later region
Commute(exactOnly) ==
    (~Degenerate(edit.region) /\ (exactOnly => NoRounding(hist.log, edit.region))) =>
    \A r \in Regions, v \in EditValues :
        (Precedes(r, edit.region) /\ RegionsDisjoint(r, edit.region)) =>
            ThenEdit(BoxSetEdit_result(hist.before, [edit EXCEPT !.region = r, !.value = v]),
                     BoxSetEdit_result(data, [edit EXCEPT !.region = r, !.value = v]),
                     [edit EXCEPT !.region = r, !.value = v], exactOnly)

\* C26 as stated: two BoxSetEdits of one attribute and one granularity on
\* disjoint regions leave the same value at every position in either order.
C26_Original == Done("BoxSetEdit") => Commute(FALSE)

\* C26: two BoxSetEdits of one attribute and one granularity on disjoint
\* regions leave the same value at every position in either order, provided
\* that none of the traversals rounds a node: every node a traversal leaves
\* lies inside the edit's region or has no overlap with it.
C26_CommuteWithoutRounding == Done("BoxSetEdit") => Commute(TRUE)

\* the change an edit made to the values of the attribute
Changed(before, after, attribute) ==
    \E p \in Cells(after) :
        ValueAt(after, attribute, p) # ValueAtOrDefault(before, attribute, p)

WroteBoth(a, ab, ba, other) ==
    /\ Precedes(other.region, edit.region)
    /\ NoRounding(a.log, other.region) /\ NoRounding(ab.log, edit.region)
    /\ NoRounding(hist.log, edit.region) /\ NoRounding(ba.log, other.region)
    /\ Changed(hist.before, a.data, edit.attribute)
    /\ Changed(a.data, ab.data, edit.attribute)
    /\ a.data.size > hist.before.size
    /\ data.size < ba.data.size

WroteBothThen(a, ba, other) == WroteBoth(a, BoxSetEdit_result(a.data, edit), ba, other)

\* a second edit that wrote, over data that held values, and another edit of
\* the other value on a disjoint region that writes too and doubles the
\* bounds, none of the four traversals rounding a node
C26_Witness ==
    /\ Done("BoxSetEdit")
    /\ hist.before # EmptyData
    /\ \E r \in Regions, v \in EditValues \ {edit.value} :
           /\ RegionsDisjoint(r, edit.region)
           /\ WroteBothThen(BoxSetEdit_result(hist.before, [edit EXCEPT !.region = r, !.value = v]),
                             BoxSetEdit_result(data, [edit EXCEPT !.region = r, !.value = v]),
                             [edit EXCEPT !.region = r, !.value = v])

\* the parentInfo chain of a visit ends before the ancestor the walk is after
ChainTooShort(visit) == Len(visit.info.parents) < AncestorSteps + 1

\* node.size > voxelizationSize for the edit's spanner
AboveVoxelizationSize(visit) ==
    visit.info.size * SPANNER_LOD_THRESHOLD_MULTIPLIER
        > IMax(GetLongestSide(Spanner(edit.object).bounds),
               Spanner(edit.object).granularity) * 2

\* C27: in the traversal of an insert or a remove, every visited node that
\* meets the spanner's bounds has each of its outputs written, none keeping
\* what the node held; when the parentInfo chain above the node ends before
\* the ancestor, the outputs are the defaults, the visit still returns
\* DEFAULT_ORDER exactly when node.size > voxelizationSize, and where it
\* returns STOP_RECURSION every position of the node holds the default
\* afterwards.
C27_ResetBeforeBlend ==
    Revoxelized =>
        \A i \in 1..Len(hist.log) :
            MeetsSpanner(hist.log[i]) =>
                /\ Len(hist.log[i].outputValues) = Len(GetVoxelizedAttributes(Spanner(edit.object)))
                /\ \A k \in 1..Len(hist.log[i].outputValues) :
                       hist.log[i].outputValues[k] # Unset
                /\ ChainTooShort(hist.log[i]) =>
                       /\ hist.log[i].outputValues = <<DefaultValue>>
                       /\ hist.log[i].order = DEFAULT_ORDER <=> AboveVoxelizationSize(hist.log[i])
                       /\ hist.log[i].order = STOP_RECURSION <=> ~AboveVoxelizationSize(hist.log[i])
                       /\ hist.log[i].order = STOP_RECURSION =>
                              \A p \in CellsOf(hist.log[i].info) :
                                  ValueAt(data, "spannerColor", p) = DefaultValue

\* a traversal in which a node with too short a chain was subdivided and
\* another was left, the latter having held a value other than the default
C27_Witness ==
    /\ Revoxelized
    /\ \E i, j \in 1..Len(hist.log) :
           /\ MeetsSpanner(hist.log[i])
           /\ ChainTooShort(hist.log[i])
           /\ hist.log[i].order = DEFAULT_ORDER
           /\ MeetsSpanner(hist.log[j])
           /\ ChainTooShort(hist.log[j])
           /\ hist.log[j].order = STOP_RECURSION
           /\ \E p \in CellsOf(hist.log[j].info) :
                  ValueAtOrDefault(hist.before, "spannerColor", p) # DefaultValue

\* C28: in the traversal of an insert or a remove, a visited node whose
\* bounds do not meet the spanner's is left with STOP_RECURSION and no output
\* written, is not subdivided (no node below it is visited), and every
\* position of it holds, for every attribute, what it held before; a position
\* whose voxelized value changed lies in a visited node that meets the
\* spanner's bounds and was left with its outputs written.
C28_NodesOffTheSpannerKept ==
    Revoxelized =>
        /\ \A i \in 1..Len(hist.log) :
               ~MeetsSpanner(hist.log[i]) =>
                   /\ hist.log[i].order = STOP_RECURSION
                   /\ hist.log[i].outputValues = <<Unset>>
                   /\ \A j \in 1..Len(hist.log) :
                          j # i => ~BoxContains(InfoBounds(hist.log[i].info),
                                                InfoBounds(hist.log[j].info))
                   /\ \A p \in CellsOf(hist.log[i].info) : \A a \in VoxelAttrs :
                          ValueAt(data, a, p) = ValueAtOrDefault(hist.before, a, p)
        /\ \A p \in Cells(data) :
               ValueAt(data, "spannerColor", p)
                       # ValueAtOrDefault(hist.before, "spannerColor", p) =>
                   \E i \in 1..Len(hist.log) :
                       /\ MeetsSpanner(hist.log[i])
                       /\ hist.log[i].order = STOP_RECURSION
                       /\ p \in CellsOf(hist.log[i].info)

\* a traversal that left a node off the spanner which held a voxelized value
\* and holds it still, and that wrote the outputs of a node that meets the
\* spanner
C28_Witness ==
    /\ Revoxelized
    /\ \E i \in 1..Len(hist.log) :
           /\ ~MeetsSpanner(hist.log[i])
           /\ \E p \in CellsOf(hist.log[i].info) :
                  /\ ValueAtOrDefault(hist.before, "spannerColor", p) # DefaultValue
                  /\ ValueAt(data, "spannerColor", p)
                         = ValueAtOrDefault(hist.before, "spannerColor", p)
    /\ \E j \in 1..Len(hist.log) :
           /\ MeetsSpanner(hist.log[j])
           /\ hist.log[j].order = STOP_RECURSION
           /\ hist.log[j].outputValues # <<Unset>>
           /\ hist.log[j].outputValues # <<DefaultValue>>

\* the instances paintHeight or setMaterial was called on, in the order of
\* the calls
Receivers == [i \in 1..Len(hist.calls) |-> hist.calls[i].on]

\* C29: the calls of paintHeight or setMaterial of one apply are made on the
\* spanners that met the query box before the loop, one call on each, in the
\* order of the collected list; each was still in the collection when it was
\* called; an instance that a call returned and the loop put into the
\* collection is not called in the same apply, although it meets the query box.
C29_LoopOverCollectedList ==
    Painted =>
        /\ Receivers = AsVector(PaintQuery(hist.before))
        /\ \A i, j \in 1..Len(hist.calls) : Receivers[i] = Receivers[j] => i = j
        /\ \A i \in 1..Len(hist.calls) :
               /\ hist.calls[i].held
               /\ (/\ hist.calls[i].returned # hist.calls[i].on
                   /\ hist.calls[i].returned \notin hist.before.spanners[SpannersAttribute]) =>
                      /\ hist.calls[i].returned \in PaintQuery(data)
                      /\ \A j \in 1..Len(hist.calls) :
                             Receivers[j] # hist.calls[i].returned

\* a material edit whose call returned a new instance: the collection holds
\* it, it meets the query box, and the one call of the apply was on the old
C29_Witness ==
    /\ Painted
    /\ edit.kind = "HeightfieldMaterialSpannerEdit"
    /\ Len(hist.calls) = 1
    /\ hist.calls[1].returned # hist.calls[1].on
    /\ hist.calls[1].returned \in PaintQuery(data)
    /\ hist.calls[1].on \notin data.spanners[SpannersAttribute]
    /\ PaintQuery(hist.before) = {hist.calls[1].on}

\* the source handed to copyContents is one it accepts
Accepted(packet) == packet.size # 0 /\ packet.size <= MAX_PACKET_SIZE

\* C30: the byte array of every NetworkPacket has at most MAX_PACKET_SIZE
\* bytes, whatever constructors and copy or move assignments have run; a
\* call that hands copyContents an empty or an oversized source leaves the
\* sending node and the byte array of its packet as they were (the previous
\* contents for an assignment, the members as default-constructed for a
\* constructor), and a call that hands it any other source makes them that
\* source; no call changes another packet.
C30_PacketSizeAndRejectedCopy ==
    /\ [](\A s \in PacketSlots : net.packets[s].byteArray.size <= MAX_PACKET_SIZE)
    /\ [][net' # net =>
             LET call == net'.call
                 old == net.packets[call.this]
                 new == net'.packets[call.this]
             IN  /\ \A t \in PacketSlots \ {call.this} : net'.packets[t] = net.packets[t]
                 /\ new.live
                 /\ IF Accepted(call.byteArray)
                    THEN /\ new.sendingNode = call.sendingNode
                         /\ new.byteArray = call.byteArray
                    ELSE /\ new.sendingNode = old.sendingNode
                         /\ new.byteArray = old.byteArray]_vars

\* an assignment from an empty packet to a packet that holds a sending node
\* and MAX_PACKET_SIZE bytes, beside a packet whose constructor was handed
\* an array that copyContents did not accept
C30_Witness ==
    /\ net.call.kind = "operator=(NetworkPacket const&)"
    /\ net.call.byteArray = EmptyByteArray
    /\ net.packets[net.call.this].byteArray.size = MAX_PACKET_SIZE
    /\ net.packets[net.call.this].sendingNode # 0
    /\ \E o \in PacketSlots \ {net.call.this} :
           net.packets[o] = DefaultPacket

====
